---------------------------- MODULE Spec2Model ----------------------------
(***************************************************************************)
(* A model of the photo publishing pipeline of waypoint-media-site:        *)
(* release_photos.py (GitHub release backend) and release_photos_s3.py     *)
(* (S3 backend).                                                           *)
(*                                                                         *)
(* Strings are sequences of one-character strings, so that splitting,     *)
(* joining, suffix replacement and equality of file names are computed as *)
(* the Python code computes them.                                         *)
(***************************************************************************)
EXTENDS Integers, Sequences, FiniteSets, TLC

VARIABLES
    \* ---- the publishing pipeline (one invocation of main after another)
    backend,        \* "github" (release_photos.py) or "s3" (release_photos_s3.py)
    args,           \* the command line arguments, the same in every run
    env,            \* capabilities: PIL_AVAILABLE, OPENAI_AVAILABLE, the API key
    srcdir,         \* the files under --photos: a set of relative paths
    store,          \* the objects of the shoot namespace: set of [key, src, kind]
    release_exists, \* GitHub backend: the release of the tag exists
    manifest,       \* the manifest file: [state, data], data: shoot id -> entry
    pc,             \* the position of the running invocation
    run,            \* the number of the running invocation (1, 2, ...)
    photo_urls,     \* the photo records of the run (list of dicts)
    to_upload,      \* photos_to_upload: indexes into photo_urls (shared dicts)
    skipped_photos, \* skipped_photos: file names
    temp_dir,       \* the temporary directory: set of [name, src, kind]
    temp_files,     \* temp_files: list of [path, idx], idx the record kept beside it
    loop_i,         \* the index of the running for loop
    result,         \* what the upload function returned: "none", "true", "false", "raised"
    log,            \* what the running invocation did so far (history variable)
    prev,           \* the summary of the invocation before this one (history variable)
    \* ---- one call of classify_image_with_ai, step by step
    cls,            \* [pc, attempt, requests, result, answers]
    \* ---- calls of generate_unique_prefix and generate_prefixed_filename
    naming,         \* the arguments and the values returned, call after call
    \* ---- one call of downsample_image on an image of a given size
    image,          \* [pc, width, height, max_width, max_height, out, how]
    \* ---- manage_photos.py: one invocation of main after another
    mp              \* the directories, photos.json, real-estate.js and what main did

-----------------------------------------------------------------------------
(* Characters and strings *)

UpperChars == <<"A","B","C","D","E","F","G","H","I","J","K","L","M","N","O","P","Q","R","S","T","U","V","W","X","Y","Z">>
LowerChars == <<"a","b","c","d","e","f","g","h","i","j","k","l","m","n","o","p","q","r","s","t","u","v","w","x","y","z">>
DigitChars == <<"0","1","2","3","4","5","6","7","8","9">>

Range(s) == { s[i] : i \in DOMAIN s }

\* str.lower() of one character
LowerChar(c) ==
    IF c \in Range(UpperChars)
    THEN LowerChars[CHOOSE i \in DOMAIN UpperChars : UpperChars[i] = c]
    ELSE c

\* str.upper() of one character
UpperChar(c) ==
    IF c \in Range(LowerChars)
    THEN UpperChars[CHOOSE i \in DOMAIN LowerChars : LowerChars[i] = c]
    ELSE c

\* str.lower()
Lower(s) == [i \in DOMAIN s |-> LowerChar(s[i])]

\* str.upper()
Upper(s) == [i \in DOMAIN s |-> UpperChar(s[i])]

\* s[:n]
Take(s, n) == IF Len(s) <= n THEN s ELSE SubSeq(s, 1, n)

\* s.replace(c, d) for single characters c and d
ReplaceChar(s, c, d) == [i \in DOMAIN s |-> IF s[i] = c THEN d ELSE s[i]]

\* s.replace(c, "") for a single character c
RECURSIVE RemoveChar(_, _)
RemoveChar(s, c) ==
    IF s = <<>> THEN <<>>
    ELSE IF Head(s) = c THEN RemoveChar(Tail(s), c)
         ELSE <<Head(s)>> \o RemoveChar(Tail(s), c)

\* str.isdigit(): non-empty and digits only
IsDigit(s) == s # <<>> /\ \A i \in DOMAIN s : s[i] \in Range(DigitChars)

\* s.endswith(t)
EndsWith(s, t) ==
    Len(t) <= Len(s) /\ SubSeq(s, Len(s) - Len(t) + 1, Len(s)) = t

\* "sep".join(parts)
RECURSIVE Join(_, _)
Join(parts, sep) ==
    IF parts = <<>> THEN <<>>
    ELSE IF Len(parts) = 1 THEN parts[1]
         ELSE parts[1] \o sep \o Join(Tail(parts), sep)

\* the index of the last "." that starts an extension, 0 when there is none
\* (a dot with only dots before it starts no extension)
ExtDot(name) ==
    LET dots == { i \in DOMAIN name : name[i] = "." }
        last == IF dots = {} THEN 0 ELSE CHOOSE i \in dots : \A j \in dots : j <= i
    IN  IF last = 0 \/ \A j \in 1..(last - 1) : name[j] = "." THEN 0 ELSE last

\* os.path.splitext(name): <<root, ext>>
splitext(name) ==
    LET d == ExtDot(name)
    IN  IF d = 0 THEN <<name, <<>>>>
        ELSE <<SubSeq(name, 1, d - 1), SubSeq(name, d, Len(name))>>

\* Path.with_suffix(suffix).name for a file name without directory part
with_suffix(name, suffix) ==
    LET d == ExtDot(name)
    IN  IF d = 0 \/ d = Len(name) THEN name \o suffix
        ELSE SubSeq(name, 1, d - 1) \o suffix

\* the decimal digits of n >= 0
RECURSIVE Digits(_)
Digits(n) ==
    IF n < 10 THEN <<DigitChars[n + 1]>>
    ELSE Digits(n \div 10) \o <<DigitChars[(n % 10) + 1]>>

\* f"{n:03d}"
Fmt03(n) ==
    LET d == Digits(n)
    IN  IF Len(d) >= 3 THEN d
        ELSE IF Len(d) = 2 THEN <<"0">> \o d ELSE <<"0", "0">> \o d

\* Python's order on strings, by code point, for the characters of the model
CharOrder ==
    <<" ", "-", ".", "/">> \o DigitChars \o UpperChars \o <<"_">> \o LowerChars

CharRank(c) == CHOOSE i \in DOMAIN CharOrder : CharOrder[i] = c

RECURSIVE StrLess(_, _)
StrLess(s, t) ==
    IF t = <<>> THEN FALSE
    ELSE IF s = <<>> THEN TRUE
    ELSE IF Head(s) = Head(t) THEN StrLess(Tail(s), Tail(t))
    ELSE CharRank(Head(s)) < CharRank(Head(t))

\* sorted(set of strings)
RECURSIVE SortedSeq(_)
SortedSeq(S) ==
    IF S = {} THEN <<>>
    ELSE LET m == CHOOSE x \in S : \A y \in S \ {x} : StrLess(x, y)
         IN  <<m>> \o SortedSeq(S \ {m})

-----------------------------------------------------------------------------
(* Naming: generate_unique_prefix, generate_prefixed_filename *)

None == <<>>    \* Python's None for a string-valued result; "" is as falsy

\* hashlib.md5(shoot_name.encode()).hexdigest()[:6], tabulated for the shoot
\* ids of the model (md5 itself is not modelled)
Md5Hex6(shoot_name) ==
    CASE shoot_name = <<"l","a","k","e","h","o","u","s","e">> -> <<"8","b","7","5","d","f">>
      [] shoot_name = <<"m","y","_","s","h","o","o","t">>     -> <<"e","9","9","c","c","b">>
      [] shoot_name = <<"L","a","k","e"," ","H","s","e">>     -> <<"f","b","8","a","5","c">>
      [] shoot_name = <<"s","u","g","a","r","-","m","i","l","l","-","p","o","o","l","-","h","o","m","e">>
                                                              -> <<"5","d","f","e","f","1">>
      [] shoot_name = <<"P","o","o","l","_","H","o","m","e"," ","2","0","2","4">>
                                                              -> <<"6","a","3","e","b","d">>
      [] OTHER -> <<"0","0","0","0","0","0">>

\* generate_unique_prefix with the "simple" prefix left at full length
generate_unique_prefix_untruncated(shoot_name, method) ==
    IF method = "hash"
    THEN Take(shoot_name, 8) \o <<"-">> \o Md5Hex6(shoot_name)
    ELSE Lower(ReplaceChar(ReplaceChar(shoot_name, "_", "-"), " ", "-"))

generate_unique_prefix(shoot_name, method) ==
    IF method = "hash"
    THEN Take(shoot_name, 8) \o <<"-">> \o Md5Hex6(shoot_name)
    ELSE LET clean_name == Lower(ReplaceChar(ReplaceChar(shoot_name, "_", "-"), " ", "-"))
         IN  IF method = "simple" THEN Take(clean_name, 12) ELSE clean_name

\* generate_prefixed_filename with the extension put in lower case
generate_prefixed_filename_lower_ext(original_filename, prefix, counter, room_type) ==
    LET name == splitext(original_filename)[1]
        ext  == splitext(original_filename)[2]
        clean_name == RemoveChar(RemoveChar(name, "-"), "_")
        parts == <<prefix>>
                 \o (IF room_type # <<>> THEN <<room_type>> ELSE <<>>)
                 \o (IF counter # <<>> THEN <<Fmt03(counter[1])>> ELSE <<>>)
                 \o (IF clean_name # <<>> /\ ~IsDigit(clean_name) THEN <<clean_name>> ELSE <<>>)
    IN  Join(parts, <<"-">>) \o Lower(ext)

\* generate_prefixed_filename with a numeric stem kept
generate_prefixed_filename_keep_digits(original_filename, prefix, counter, room_type) ==
    LET name == splitext(original_filename)[1]
        ext  == splitext(original_filename)[2]
        clean_name == RemoveChar(RemoveChar(name, "-"), "_")
        parts == <<prefix>>
                 \o (IF room_type # <<>> THEN <<room_type>> ELSE <<>>)
                 \o (IF counter # <<>> THEN <<Fmt03(counter[1])>> ELSE <<>>)
                 \o (IF clean_name # <<>> THEN <<clean_name>> ELSE <<>>)
    IN  Join(parts, <<"-">>) \o ext

\* counter is <<>> for None and <<n>> for the number n; room_type is None or a string
generate_prefixed_filename(original_filename, prefix, counter, room_type) ==
    LET name == splitext(original_filename)[1]
        ext  == splitext(original_filename)[2]
        clean_name == RemoveChar(RemoveChar(name, "-"), "_")
        parts == <<prefix>>
                 \o (IF room_type # <<>> THEN <<room_type>> ELSE <<>>)
                 \o (IF counter # <<>> THEN <<Fmt03(counter[1])>> ELSE <<>>)
                 \o (IF clean_name # <<>> /\ ~IsDigit(clean_name) THEN <<clean_name>> ELSE <<>>)
    IN  Join(parts, <<"-">>) \o ext

-----------------------------------------------------------------------------
(* Paths below the --photos directory, written relative to it *)

\* the index of the last "/" of a path, 0 when there is none
LastSlash(path) ==
    LET sl == { i \in DOMAIN path : path[i] = "/" }
    IN  IF sl = {} THEN 0 ELSE CHOOSE i \in sl : \A j \in sl : j <= i

\* os.path.basename(path), Path(path).name
basename(path) == SubSeq(path, LastSlash(path) + 1, Len(path))

\* relative_path.parent.name if len(relative_path.parts) > 1 else None
subdirectory(path) ==
    IF LastSlash(path) = 0 THEN None
    ELSE basename(SubSeq(path, 1, LastSlash(path) - 1))

photo_extensions ==
    << <<".","j","p","g">>, <<".","j","p","e","g">>, <<".","p","n","g">>, <<".","w","e","b","p">> >>

\* Path(args.photos).glob(f"**/*{ext}") and glob(f"**/*{ext.upper()}") over the
\* four extensions, then sorted([str(f) for f in photo_files])
DiscoverAll(dir) ==
    SortedSeq({ f \in dir : \E i \in DOMAIN photo_extensions :
                    \/ EndsWith(f, photo_extensions[i])
                    \/ EndsWith(f, Upper(photo_extensions[i])) })

\* the number of directories between the --photos directory and the file
Depth(path) == Cardinality({ i \in DOMAIN path : path[i] = "/" })

\* the release script's discovery with --max-depth (<<>> when not given): "if
\* args.max_depth:" is false for None and for 0, and then the search is the
\* unlimited one; otherwise the patterns "*", "*/*", ... of depth 0..max_depth
\* are globbed with the four extensions, and the result is sorted
Discover(dir, max_depth) ==
    IF max_depth # <<>> /\ max_depth[1] # 0
    THEN SortedSeq({ f \in dir :
                       /\ Depth(f) <= max_depth[1]
                       /\ \E i \in DOMAIN photo_extensions :
                            \/ EndsWith(f, photo_extensions[i])
                            \/ EndsWith(f, Upper(photo_extensions[i])) })
    ELSE DiscoverAll(dir)

\* photo_files of main: release_photos_s3.py has no --max-depth
photo_files_of(be, dir, max_depth) ==
    IF be = "github" THEN Discover(dir, max_depth) ELSE DiscoverAll(dir)

-----------------------------------------------------------------------------
(* Photo records: generate_github_urls, generate_photo_urls *)

\* the record of the counter-th photo file (counter from enumerate(photo_files, 1));
\* src is the file the record was made from (history field)
PhotoRecord(photo_file, counter, prefix, use_prefix, sequential_numbering) ==
    LET original_filename == basename(photo_file)
        new_filename ==
            IF use_prefix
            THEN IF sequential_numbering
                 THEN generate_prefixed_filename(original_filename, prefix, <<counter>>, None)
                 ELSE generate_prefixed_filename(original_filename, prefix, <<>>, None)
            ELSE original_filename
    IN  [ filename          |-> new_filename,
          original_filename |-> original_filename,
          subdirectory      |-> subdirectory(photo_file),
          counter           |-> IF sequential_numbering THEN <<counter>> ELSE <<>>,
          src               |-> photo_file ]

generate_photo_urls(shoot_name, photo_files, use_prefix, prefix_method, sequential_numbering) ==
    LET prefix == IF use_prefix THEN generate_unique_prefix(shoot_name, prefix_method) ELSE <<>>
    IN  [ c \in DOMAIN photo_files |->
            PhotoRecord(photo_files[c], c, prefix, use_prefix, sequential_numbering) ]

\* the two scripts build the records alike (the release script adds a url field)
generate_github_urls(shoot_name, photo_files, use_prefix, prefix_method, sequential_numbering) ==
    generate_photo_urls(shoot_name, photo_files, use_prefix, prefix_method, sequential_numbering)

-----------------------------------------------------------------------------
(* The manifest file: photos.json, config/photos.json *)

\* a file is absent, unparseable ("corrupt") or holds a JSON object (state "ok",
\* data: shoot id -> entry)
EmptyData == [ s \in {} |-> s ]

ManifestFile(state, data) == [ state |-> state, data |-> data ]

\* shoot_data as main builds it; release_photos.py stores no image list
ShootData(be, a, urls) ==
    [ title       |-> IF a.title # "" THEN a.title ELSE "Default title",
      description |-> IF a.description # "" THEN a.description ELSE "Default description",
      category    |-> a.category,
      has_images  |-> (be = "s3"),
      images      |-> IF be = "s3" THEN [ i \in DOMAIN urls |-> urls[i].filename ] ELSE <<>> ]

\* update_photos_json of both release scripts: json.load is not guarded, so an
\* unparseable file raises; otherwise the entry of shoot_id is replaced whole
update_photos_json(file, shoot_id, shoot_data) ==
    IF file.state = "corrupt"
    THEN [ raised |-> TRUE, file |-> file ]
    ELSE LET data == IF file.state = "ok" THEN file.data ELSE EmptyData
         IN  [ raised |-> FALSE,
               file   |-> ManifestFile("ok",
                            [ s \in DOMAIN data \cup {shoot_id} |->
                                IF s = shoot_id THEN shoot_data ELSE data[s] ]) ]

-----------------------------------------------------------------------------
(* The pipeline: inputs *)

MaxPhotos == 2      \* the most source files in the --photos directory
MaxRuns == 2        \* the number of invocations of main, one after another

Lakehouse == <<"l","a","k","e","h","o","u","s","e">>
OtherShoot == <<"m","y","_","s","h","o","o","t">>

\* the files a --photos directory of the model may hold
FileUniverse ==
    { <<"a",".","j","p","g">>,
      <<"a",".","p","n","g">>,
      <<"b",".","j","p","g">>,
      <<"s","u","b","/","a",".","j","p","g">> }

\* the room type the pipeline model lets the classifier answer (one of valid_types)
Kitchen == <<"k","i","t","c","h","e","n">>
ModelLabels == { Kitchen }

CustomEntry ==
    [ title |-> "Custom title", description |-> "Custom description",
      category |-> "waterfront", has_images |-> TRUE,
      images |-> << <<"o","l","d",".","j","p","g">> >> ]

OtherEntry ==
    [ title |-> "Other title", description |-> "Other description",
      category |-> "commercial", has_images |-> TRUE,
      images |-> << <<"x",".","j","p","g">> >> ]

ArgsOf(force, nodown, ai, seq, title) ==
    [ shoot |-> Lakehouse, title |-> title, description |-> "", category |-> "residential",
      force_reupload |-> force, no_downsample |-> nodown, ai_classify |-> ai,
      sequential |-> seq, no_prefix |-> FALSE, prefix_method |-> "hash",
      auto_upload |-> TRUE, dry_run |-> FALSE, upload_only |-> FALSE,
      preview_names |-> FALSE, max_depth |-> <<>> ]

\* tag_calls: the calls of create_release_tag; delete_failed: the delete-asset
\* call of the run failed;
\* ops: the deletes and uploads the store carried out, in order; listed: what the
\* listing returned; unclassified: the positions in temp_files of the files
\* classify_image_with_ai returned None for, renamed: of those it returned a room
\* type for; not_found: the records of
\* photos_to_upload whose source file the prepare loop did not find; asked_on:
\* the kinds ("jpeg", "copy") of the temp files sent to the model;
\* downsampled_count: the calls of downsample_image that returned True
NoLog == [ ops |-> <<>>, tag_calls |-> 0, requests |-> 0, upload_calls |-> 0, creates |-> 0, create_failed |-> FALSE,
           connected |-> FALSE,
           delete_calls |-> 0, delete_failed |-> FALSE, listed |-> {}, list_lost |-> FALSE,
           manifest_written |-> FALSE, store_error |-> FALSE, rejected |-> FALSE,
           unclassified |-> {}, renamed |-> {}, not_found |-> {}, asked_on |-> {}, downsampled_count |-> 0,
           manifest_before |-> ManifestFile("absent", EmptyData) ]

\* the keys uploaded, in order, among the store operations ops
Uploads(ops) ==
    LET up == SelectSeq(ops, LAMBDA o : o[1] = "upload")
    IN  [ j \in DOMAIN up |-> up[j][2] ]

NoPrev == [ ran |-> FALSE, result |-> "none", store_error |-> FALSE, list_lost |-> FALSE,
            rejected |-> FALSE, uploads |-> <<>> ]

\* every capability is there and PIL can process every source file; CORRUPT holds
\* the source files Image.open or save raises on
NormalEnv ==
    [ PIL_AVAILABLE |-> TRUE, OPENAI_AVAILABLE |-> TRUE, OPENAI_API_KEY |-> TRUE, CORRUPT |-> {} ]

vars == << backend, args, env, srcdir, store, release_exists, manifest, pc, run, photo_urls, to_upload,
           skipped_photos, temp_dir, temp_files, loop_i, result, log, prev, cls, naming, image, mp >>

inputs == << backend, args, env, srcdir >>

\* what the pipeline's actions never change
outside == << inputs, cls, naming, image, mp >>

\* no call of the naming functions
NamingIdle == [ shoot_name |-> <<>>, method |-> "hash", original_filename |-> <<>>,
                counter |-> <<>>, room_type |-> <<>>, prefixes |-> <<>>, filenames |-> <<>> ]

ClsIdle == [ pc |-> "idle", attempt |-> 0, requests |-> 0, result |-> None, answers |-> <<>> ]

\* no call of downsample_image on its own
ImageIdle == [ pc |-> "idle", width |-> 1, height |-> 1, max_width |-> 1, max_height |-> 1,
               out |-> <<>>, how |-> "none" ]

\* manage_photos.py is not run
MpIdle == [ pc |-> "idle", run |-> 1,
            args |-> [ create_sample |-> FALSE, scan_only |-> FALSE ],
            exists |-> FALSE, dirs |-> <<>>,
            config |-> [ state |-> "absent", data |-> <<>> ],
            js |-> [ state |-> "absent", data |-> <<>> ],
            before |-> [ config |-> [ state |-> "absent", data |-> <<>> ],
                         js |-> [ state |-> "absent", data |-> <<>> ] ],
            scanned |-> <<>>, merged |-> <<>>, writes |-> {}, edits |-> 0 ]

Init ==
    /\ backend \in { "github", "s3" }
    /\ args \in { ArgsOf(f, d, ai, FALSE, "") : f \in BOOLEAN, d \in BOOLEAN, ai \in BOOLEAN }
    /\ env = NormalEnv
    /\ srcdir \in { S \in SUBSET FileUniverse : Cardinality(S) \in 1..MaxPhotos }
    /\ store = {}
    /\ release_exists = FALSE
    /\ manifest = ManifestFile("ok", (Lakehouse :> CustomEntry) @@ (OtherShoot :> OtherEntry))
    /\ pc = "start"
    /\ photo_urls = <<>>
    /\ to_upload = <<>>
    /\ skipped_photos = <<>>
    /\ temp_dir = {}
    /\ temp_files = <<>>
    /\ loop_i = 0
    /\ result = "none"
    /\ log = [ NoLog EXCEPT !.manifest_before = manifest ]
    /\ run = 1
    /\ prev = NoPrev
    /\ cls = ClsIdle
    /\ naming = NamingIdle
    /\ image = ImageIdle
    /\ mp = MpIdle

\* the manifest files a run may find: none, an unparseable one, one with and one
\* without an entry of the shoot
ManifestFiles ==
    { ManifestFile("absent", EmptyData),
      ManifestFile("corrupt", EmptyData),
      ManifestFile("ok", (OtherShoot :> OtherEntry)),
      ManifestFile("ok", (Lakehouse :> CustomEntry) @@ (OtherShoot :> OtherEntry)) }

\* runs that differ in the manifest they find and in --title
InitManifest ==
    /\ backend \in { "github", "s3" }
    /\ args \in { ArgsOf(FALSE, FALSE, ai, FALSE, title) :
                     ai \in BOOLEAN, title \in { "", "Arg title" } }
    /\ env = NormalEnv
    /\ srcdir \in { { <<"a",".","j","p","g">> },
                    { <<"a",".","j","p","g">>, <<"b",".","j","p","g">> } }
    /\ store = {}
    /\ release_exists = FALSE
    /\ manifest \in ManifestFiles
    /\ pc = "start"
    /\ run = 1
    /\ photo_urls = <<>>
    /\ to_upload = <<>>
    /\ skipped_photos = <<>>
    /\ temp_dir = {}
    /\ temp_files = <<>>
    /\ loop_i = 0
    /\ result = "none"
    /\ log = [ NoLog EXCEPT !.manifest_before = manifest ]
    /\ prev = NoPrev
    /\ cls = ClsIdle
    /\ naming = NamingIdle
    /\ image = ImageIdle
    /\ mp = MpIdle

-----------------------------------------------------------------------------
(* The pipeline: main *)

\* the invocation ends
EndRun(res) ==
    /\ pc' = "done"
    /\ UNCHANGED prev

\* main of release_photos.py calls create_release_tag (git tag, git push) unless
\* --upload-only, --dry-run or --preview-names is given
CreatesTag == backend = "github" /\ ~args.upload_only /\ ~args.dry_run /\ ~args.preview_names

\* main up to the photo records: discovery ("if not photo_files: return"), the
\* release tag (main returns when create_release_tag returns None), then
\* generate_photo_urls / generate_github_urls and the return of --preview-names
Main_Generate ==
    /\ pc = "start"
    /\ \E tag_ok \in BOOLEAN :
         LET photo_files == photo_files_of(backend, srcdir, args.max_depth)
             tags == photo_files # <<>> /\ CreatesTag
         IN  /\ ~tags => tag_ok
             /\ log' = [ log EXCEPT !.tag_calls = @ + (IF tags THEN 1 ELSE 0) ]
             /\ IF photo_files = <<>> \/ ~tag_ok
                THEN /\ EndRun("none")
                     /\ UNCHANGED photo_urls
                ELSE /\ photo_urls' =
                          IF backend = "s3"
                          THEN generate_photo_urls(args.shoot, photo_files, ~args.no_prefix,
                                                   args.prefix_method, args.sequential)
                          ELSE generate_github_urls(args.shoot, photo_files, ~args.no_prefix,
                                                    args.prefix_method, args.sequential)
                     /\ IF args.preview_names
                        THEN EndRun("none")
                        ELSE pc' = "manifest" /\ UNCHANGED prev
    /\ UNCHANGED << outside, store, release_exists, manifest, run, to_upload, skipped_photos, temp_dir,
                    temp_files, loop_i, result >>

\* "if args.auto_upload and not args.dry_run and not args.preview_names": the
\* first call of the upload function in main
FirstUploadSite == args.auto_upload /\ ~args.dry_run /\ ~args.preview_names

\* "if args.upload_only: if args.auto_upload:" the second call of the upload
\* function in main of release_photos.py, reached when the first was not made or
\* did not return True
SecondUploadSite == backend = "github" /\ args.upload_only /\ args.auto_upload

\* main: "Update photos.json", before any upload; an uncaught error ends the run
Main_UpdateManifest ==
    /\ pc = "manifest"
    /\ LET writes == ~args.dry_run /\ (backend = "s3" \/ ~args.upload_only)
           upd == update_photos_json(manifest, args.shoot, ShootData(backend, args, photo_urls))
           uploads == FirstUploadSite \/ SecondUploadSite
       IN  IF writes /\ upd.raised
           THEN /\ result' = "raised"
                /\ UNCHANGED << manifest, log >>
                /\ EndRun("raised")
           ELSE /\ manifest' = IF writes THEN upd.file ELSE manifest
                /\ log' = [ log EXCEPT !.manifest_written = writes ]
                /\ UNCHANGED result
                /\ IF uploads
                   THEN pc' = "connect" /\ UNCHANGED prev
                   ELSE EndRun("none")
    /\ UNCHANGED << outside, store, release_exists, run, photo_urls, to_upload, skipped_photos, temp_dir,
                    temp_files, loop_i >>

\* the next invocation of main: a new process, the same arguments and directory
NextRun ==
    /\ pc = "done"
    /\ run < MaxRuns
    /\ run' = run + 1
    /\ prev' = [ ran |-> TRUE, result |-> result, store_error |-> log.store_error,
                 list_lost |-> log.list_lost, rejected |-> log.rejected,
                 uploads |-> Uploads(log.ops) ]
    /\ pc' = "start"
    /\ photo_urls' = <<>>
    /\ to_upload' = <<>>
    /\ skipped_photos' = <<>>
    /\ temp_dir' = {}
    /\ temp_files' = <<>>
    /\ loop_i' = 0
    /\ result' = "none"
    /\ log' = [ NoLog EXCEPT !.manifest_before = manifest ]
    /\ UNCHANGED << outside, store, release_exists, manifest >>

-----------------------------------------------------------------------------
(* The asset store and the temporary directory *)

Keys(st) == { o.key : o \in st }

\* an upload under key: S3 replaces the object of the key
Put(st, key, src, kind) ==
    { o \in st : o.key # key } \cup { [ key |-> key, src |-> src, kind |-> kind ] }

TempNames(td) == { f.name : f \in td }

TempFile(td, name) == CHOOSE f \in td : f.name = name

\* a file written to the directory replaces the file of that name
TempWrite(td, name, src, kind) ==
    { f \in td : f.name # name } \cup { [ name |-> name, src |-> src, kind |-> kind ] }

\* Path.rename on POSIX: the target is replaced silently
TempRename(td, old, new) ==
    IF old = new THEN td
    ELSE { f \in td : f.name # old /\ f.name # new }
         \cup { [ TempFile(td, old) EXCEPT !.name = new ] }

\* s.replace(old, new) for a non-empty string old
RECURSIVE ReplaceAll(_, _, _)
ReplaceAll(s, old, new) ==
    IF Len(s) < Len(old) THEN s
    ELSE IF SubSeq(s, 1, Len(old)) = old
         THEN new \o ReplaceAll(SubSeq(s, Len(old) + 1, Len(s)), old, new)
         ELSE <<Head(s)>> \o ReplaceAll(Tail(s), old, new)

\* f"real-estate-{args.shoot}-{args.version}", version v1.0
TagName(shoot) ==
    <<"r","e","a","l","-","e","s","t","a","t","e","-">> \o shoot \o <<"-","v","1",".","0">>

\* tag_name.replace("real-estate-", "").replace("-v1.0", "")
ShootOfTag(tag_name) ==
    ReplaceAll(ReplaceAll(tag_name, <<"r","e","a","l","-","e","s","t","a","t","e","-">>, <<>>),
               <<"-","v","1",".","0">>, <<>>)

\* the shoot name the classification step derives its prefix from
RenameShoot == IF backend = "s3" THEN args.shoot ELSE ShootOfTag(TagName(args.shoot))

-----------------------------------------------------------------------------
(* The pipeline: upload_photos_to_release, upload_photos_to_s3 *)

\* the function returns res; the with block removes the temporary directory
Return(res) ==
    /\ result' = res
    /\ temp_dir' = {}
    /\ pc' = "returned"
    /\ UNCHANGED prev

\* Raise with the temporary directory left behind
Raise_KeepTempDir ==
    /\ result' = "raised"
    /\ UNCHANGED temp_dir
    /\ EndRun("raised")

\* an exception nothing catches: the with block removes the temporary directory,
\* the exception leaves the function and main, the process ends
Raise ==
    /\ result' = "raised"
    /\ temp_dir' = {}
    /\ EndRun("raised")

\* Upload_Connect going on to the listing after a release-create call that failed
Upload_Connect_CreateFailureIgnored ==
    /\ pc = "connect"
    /\ \E outcome \in { "ok", "unavailable", "create_failed" } :
         LET creates == backend = "github" /\ ~release_exists /\ outcome # "unavailable"
         IN  /\ outcome = "create_failed" => creates
             /\ log' = [ log EXCEPT !.upload_calls = @ + 1,
                                    !.connected = (outcome # "unavailable"),
                                    !.creates = @ + (IF creates THEN 1 ELSE 0),
                                    !.create_failed = (outcome = "create_failed") ]
             /\ release_exists' = (release_exists \/ (creates /\ outcome = "ok"))
             /\ IF outcome # "unavailable"
                THEN pc' = "partition" /\ UNCHANGED << result, temp_dir, prev >>
                ELSE Return("false")
    /\ UNCHANGED << outside, store, manifest, run, photo_urls, to_upload, skipped_photos,
                    temp_files, loop_i >>

\* the checks before the listing: gh / boto3 present, credentials, bucket; the
\* release is viewed ("gh release view" taken to fail exactly when there is no
\* release of the tag) and created when absent
Upload_Connect ==
    /\ pc = "connect"
    /\ \E outcome \in { "ok", "unavailable", "create_failed" } :
         LET creates == backend = "github" /\ ~release_exists /\ outcome # "unavailable"
         IN  /\ outcome = "create_failed" => creates
             /\ log' = [ log EXCEPT !.upload_calls = @ + 1,
                                    !.connected = (outcome = "ok"),
                                    !.creates = @ + (IF creates THEN 1 ELSE 0),
                                    !.create_failed = (outcome = "create_failed") ]
             /\ release_exists' = (release_exists \/ (creates /\ outcome = "ok"))
             /\ IF outcome = "ok"
                THEN pc' = "partition" /\ UNCHANGED << result, temp_dir, prev >>
                ELSE Return("false")
    /\ UNCHANGED << outside, store, manifest, run, photo_urls, to_upload, skipped_photos,
                    temp_files, loop_i >>

\* the indexes, from i on and in order, of the records of urls whose file name
\* is in existing (want = TRUE) or is not (want = FALSE)
RECURSIVE IndexesWhere(_, _, _, _)
IndexesWhere(urls, i, existing, want) ==
    IF i > Len(urls) THEN <<>>
    ELSE (IF (urls[i].filename \in existing) = want THEN <<i>> ELSE <<>>)
         \o IndexesWhere(urls, i + 1, existing, want)

\* photos_to_upload without the test against the listing
photos_to_upload_unfiltered(urls, existing, force_reupload) == [ i \in DOMAIN urls |-> i ]

photos_to_upload(urls, existing, force_reupload) ==
    IF force_reupload THEN [ i \in DOMAIN urls |-> i ]
    ELSE IndexesWhere(urls, 1, existing, FALSE)

skipped_of(urls, existing, force_reupload) ==
    IF force_reupload THEN <<>>
    ELSE LET ix == IndexesWhere(urls, 1, existing, TRUE)
         IN  [ j \in DOMAIN ix |-> urls[ix[j]].filename ]

\* only upload_photos_to_release deletes; upload_photos_to_s3 has no delete
photos_to_delete(be, urls, existing, force_reupload) ==
    IF force_reupload /\ be = "github"
    THEN LET ix == IndexesWhere(urls, 1, existing, TRUE)
         IN  [ j \in DOMAIN ix |-> urls[ix[j]].filename ]
    ELSE <<>>

\* Upload_Partition with a listing that cannot be read ending the call in failure
Upload_Partition_ListErrorEnds ==
    /\ pc = "partition"
    /\ \E list_ok \in BOOLEAN :
         LET existing == IF list_ok THEN Keys(store) ELSE {}
             up  == photos_to_upload(photo_urls, existing, args.force_reupload)
             del == photos_to_delete(backend, photo_urls, existing, args.force_reupload)
         IN  IF ~list_ok
             THEN /\ Return("false")
                  /\ UNCHANGED << store, log, to_upload, skipped_photos, loop_i >>
             ELSE \E k \in 0..Len(del) :
               /\ store' = { o \in store : o.key \notin { del[j] : j \in 1..k } }
               /\ log' = [ log EXCEPT !.listed = existing,
                                      !.list_lost = (existing # Keys(store)),
                                      !.delete_calls = @ + (IF del # <<>> THEN 1 ELSE 0),
                                      !.delete_failed = (k < Len(del)),
                                      !.ops = @ \o [ j \in 1..k |-> <<"delete", del[j]>> ] ]
               /\ to_upload' = up
               /\ skipped_photos' = skipped_of(photo_urls, existing, args.force_reupload)
               /\ IF up = <<>>
                  THEN Return("true") /\ UNCHANGED loop_i
                  ELSE /\ pc' = "prepare"
                       /\ loop_i' = 1
                       /\ UNCHANGED << result, temp_dir, prev >>
    /\ UNCHANGED << outside, release_exists, manifest, run, photo_urls, temp_files >>

\* Upload_Partition with a failed delete-asset call ending the call in failure
Upload_Partition_DeleteErrorEnds ==
    /\ pc = "partition"
    /\ \E list_ok \in BOOLEAN :
         LET existing == IF list_ok THEN Keys(store) ELSE {}
             up  == photos_to_upload(photo_urls, existing, args.force_reupload)
             del == photos_to_delete(backend, photo_urls, existing, args.force_reupload)
         IN  \E k \in 0..Len(del) :
               /\ store' = { o \in store : o.key \notin { del[j] : j \in 1..k } }
               /\ log' = [ log EXCEPT !.listed = existing,
                                      !.list_lost = (existing # Keys(store)),
                                      !.delete_calls = @ + (IF del # <<>> THEN 1 ELSE 0),
                                      !.delete_failed = (k < Len(del)),
                                      !.ops = @ \o [ j \in 1..k |-> <<"delete", del[j]>> ] ]
               /\ to_upload' = up
               /\ skipped_photos' = skipped_of(photo_urls, existing, args.force_reupload)
               /\ IF k < Len(del)
                  THEN Return("false") /\ UNCHANGED loop_i
                  ELSE IF up = <<>>
                  THEN Return("true") /\ UNCHANGED loop_i
                  ELSE /\ pc' = "prepare"
                       /\ loop_i' = 1
                       /\ UNCHANGED << result, temp_dir, prev >>
    /\ UNCHANGED << outside, release_exists, manifest, run, photo_urls, temp_files >>

\* the listing (empty when it fails), the partition and, in force mode of the
\* release script, the one delete-asset call: it removed the first k names and
\* failed unless it removed all; its failure is a warning
Upload_Partition ==
    /\ pc = "partition"
    /\ \E list_ok \in BOOLEAN :
         LET existing == IF list_ok THEN Keys(store) ELSE {}
             up  == photos_to_upload(photo_urls, existing, args.force_reupload)
             del == photos_to_delete(backend, photo_urls, existing, args.force_reupload)
         IN  \E k \in 0..Len(del) :
               /\ store' = { o \in store : o.key \notin { del[j] : j \in 1..k } }
               /\ log' = [ log EXCEPT !.listed = existing,
                                      !.list_lost = (existing # Keys(store)),
                                      !.delete_calls = @ + (IF del # <<>> THEN 1 ELSE 0),
                                      !.delete_failed = (k < Len(del)),
                                      !.ops = @ \o [ j \in 1..k |-> <<"delete", del[j]>> ] ]
               /\ to_upload' = up
               /\ skipped_photos' = skipped_of(photo_urls, existing, args.force_reupload)
               /\ IF up = <<>>
                  THEN Return("true") /\ UNCHANGED loop_i
                  ELSE /\ pc' = "prepare"
                       /\ loop_i' = 1
                       /\ UNCHANGED << result, temp_dir, prev >>
    /\ UNCHANGED << outside, release_exists, manifest, run, photo_urls, temp_files >>

\* Path(base_photos_dir).glob("**/*"): the first file of that name; the files of
\* the directory itself come before those of its subdirectories
FindOriginal(dir, original_filename) ==
    LET matches == { f \in dir : basename(f) = original_filename }
        top     == { f \in matches : LastSlash(f) = 0 }
    IN  IF top # {} THEN top ELSE matches

\* downsample_image: without PIL, or when processing the image raises, the
\* output is a verbatim copy and the function returns False; otherwise it is the
\* JPEG and the function returns True (ok)
downsample_image(input_path) ==
    IF ~env.PIL_AVAILABLE \/ input_path \in env.CORRUPT
    THEN [ kind |-> "copy", ok |-> FALSE ]
    ELSE [ kind |-> "jpeg", ok |-> TRUE ]

\* what the prepare loop writes for a source file: shutil.copy2 with
\* --no-downsample, the output of downsample_image otherwise
KindOf(no_downsample, original_path) ==
    IF no_downsample THEN "copy" ELSE downsample_image(original_path).kind

\* the gate with the --ai-classify flag left out of the test
ClassificationEnabled_AnyRun == env.OPENAI_AVAILABLE

\* "if use_ai_classification and OPENAI_AVAILABLE", use_ai_classification being
\* args.ai_classify as main passes it
ClassificationEnabled == args.ai_classify /\ env.OPENAI_AVAILABLE

\* "return len(skipped_photos) > 0" with the test turned into a plain failure
NoTempFilesResult_Failure(skipped) == "false"

\* "if not temp_files: return len(skipped_photos) > 0"
NoTempFilesResult(skipped) == IF Len(skipped) > 0 THEN "true" ELSE "false"

\* Upload_Prepare with a source file that is not found ending the call in failure
\* instead of "continue"
Upload_Prepare_NotFoundEnds ==
    /\ pc = "prepare"
    /\ LET idx == to_upload[loop_i]
           photo_data == photo_urls[idx]
           found == FindOriginal(srcdir, photo_data.original_filename)
           name == IF args.no_downsample THEN photo_data.filename
                   ELSE with_suffix(photo_data.filename, <<".","j","p","g">>)
           last == loop_i = Len(to_upload)
       IN  \E original_path \in (IF found = {} THEN { None } ELSE found), written \in BOOLEAN :
             LET ok == found # {}
                 td == IF ok THEN TempWrite(temp_dir, name, original_path,
                                            KindOf(args.no_downsample, original_path))
                       ELSE temp_dir
                 counted == ok /\ written /\ ~args.no_downsample
                            /\ downsample_image(original_path).ok
                 tf == IF ok THEN Append(temp_files, [ path |-> name, idx |-> idx ])
                       ELSE temp_files
             IN  /\ ~ok => written
                 /\ log' = [ log EXCEPT !.not_found = IF ok THEN @ ELSE @ \cup { idx },
                                        !.downsampled_count = @ + (IF counted THEN 1 ELSE 0) ]
                 /\ photo_urls' = IF ok /\ (written \/ ~args.no_downsample)
                                  THEN [ photo_urls EXCEPT ![idx].filename = name ]
                                  ELSE photo_urls
                 /\ IF ~ok
                    THEN /\ UNCHANGED << temp_files, loop_i >>
                         /\ Return("false")
                    ELSE IF ~written
                    THEN /\ UNCHANGED << temp_files, loop_i >>
                         /\ Raise
                    ELSE /\ temp_files' = tf
                         /\ IF ~last
                            THEN /\ loop_i' = loop_i + 1
                                 /\ temp_dir' = td
                                 /\ UNCHANGED << pc, result, prev >>
                            ELSE IF tf = <<>>
                            THEN /\ Return(NoTempFilesResult(skipped_photos))
                                 /\ UNCHANGED loop_i
                            ELSE /\ pc' = IF ClassificationEnabled THEN "classify" ELSE "send"
                                 /\ loop_i' = 1
                                 /\ temp_dir' = td
                                 /\ UNCHANGED << result, prev >>
    /\ UNCHANGED << outside, store, release_exists, manifest, run, to_upload, skipped_photos >>

\* one pass of "for photo_data in photos_to_upload" and, after the last, the
\* "if not temp_files" test; written = FALSE: shutil.copy2 (the plain copy, or the
\* fallback copy of downsample_image) raised, which nothing catches
Upload_Prepare ==
    /\ pc = "prepare"
    /\ LET idx == to_upload[loop_i]
           photo_data == photo_urls[idx]
           found == FindOriginal(srcdir, photo_data.original_filename)
           name == IF args.no_downsample THEN photo_data.filename
                   ELSE with_suffix(photo_data.filename, <<".","j","p","g">>)
           last == loop_i = Len(to_upload)
       IN  \E original_path \in (IF found = {} THEN { None } ELSE found), written \in BOOLEAN :
             LET ok == found # {}
                 td == IF ok THEN TempWrite(temp_dir, name, original_path,
                                            KindOf(args.no_downsample, original_path))
                       ELSE temp_dir
                 counted == ok /\ written /\ ~args.no_downsample
                            /\ downsample_image(original_path).ok
                 tf == IF ok THEN Append(temp_files, [ path |-> name, idx |-> idx ])
                       ELSE temp_files
             IN  /\ ~ok => written
                 /\ log' = [ log EXCEPT !.not_found = IF ok THEN @ ELSE @ \cup { idx },
                                        !.downsampled_count = @ + (IF counted THEN 1 ELSE 0) ]
                 /\ photo_urls' = IF ok /\ (written \/ ~args.no_downsample)
                                  THEN [ photo_urls EXCEPT ![idx].filename = name ]
                                  ELSE photo_urls
                 /\ IF ~written
                    THEN /\ UNCHANGED << temp_files, loop_i >>
                         /\ Raise
                    ELSE /\ temp_files' = tf
                         /\ IF ~last
                            THEN /\ loop_i' = loop_i + 1
                                 /\ temp_dir' = td
                                 /\ UNCHANGED << pc, result, prev >>
                            ELSE IF tf = <<>>
                            THEN /\ Return(NoTempFilesResult(skipped_photos))
                                 /\ UNCHANGED loop_i
                            ELSE /\ pc' = IF ClassificationEnabled THEN "classify" ELSE "send"
                                 /\ loop_i' = 1
                                 /\ temp_dir' = td
                                 /\ UNCHANGED << result, prev >>
    /\ UNCHANGED << outside, store, release_exists, manifest, run, to_upload, skipped_photos >>

\* what classify_image_with_ai can return for a temp file: None without a
\* request when the key is unset or the file cannot be read, otherwise None or
\* one of the room types
ClassifyResults(asks) == IF asks THEN { None } \cup ModelLabels ELSE { None }

\* the record the classification loop of backend be takes for the j-th temp file:
\* the release script takes photo_urls[i], i counting the temp files, the S3
\* script the record kept beside the temp file
RecordOf(be, tf, j) == IF be = "s3" THEN tf[j].idx ELSE j

\* the file name the classification loop of backend be gives the j-th temp file
\* when the classifier answers room_type
ClassifiedName(be, shoot, urls, tf, j, room_type) ==
    generate_prefixed_filename(urls[RecordOf(be, tf, j)].original_filename,
                               generate_unique_prefix(shoot, "hash"), <<>>, room_type)

\* one pass of "for i, temp_file_path in enumerate(temp_files)"
Upload_Classify ==
    /\ pc = "classify"
    /\ LET entry == temp_files[loop_i]
           readable == entry.path \in TempNames(temp_dir)
           asks == env.OPENAI_API_KEY /\ readable
           pidx == RecordOf(backend, temp_files, loop_i)
           last == loop_i = Len(temp_files)
       IN  \E room_type \in ClassifyResults(asks) :
             LET new_filename ==
                     ClassifiedName(backend, RenameShoot, photo_urls, temp_files, loop_i, room_type)
             IN  /\ log' = [ log EXCEPT !.requests = @ + (IF asks THEN 1 ELSE 0),
                                        !.unclassified = IF room_type = None
                                                         THEN @ \cup { loop_i } ELSE @,
                                        !.renamed = IF room_type # None
                                                    THEN @ \cup { loop_i } ELSE @,
                                        !.asked_on = IF asks
                                                     THEN @ \cup { TempFile(temp_dir, entry.path).kind }
                                                     ELSE @ ]
                 /\ IF room_type # None
                    THEN /\ temp_dir' = TempRename(temp_dir, entry.path, new_filename)
                         /\ temp_files' = [ temp_files EXCEPT ![loop_i].path = new_filename ]
                         /\ photo_urls' = [ photo_urls EXCEPT ![pidx].filename = new_filename ]
                    ELSE UNCHANGED << temp_dir, temp_files, photo_urls >>
                 /\ IF last THEN pc' = "send" /\ loop_i' = 1
                            ELSE loop_i' = loop_i + 1 /\ UNCHANGED pc
    /\ UNCHANGED << outside, store, release_exists, manifest, run, to_upload, skipped_photos,
                    result, prev >>

\* "except ClientError: return False": the batch ends, nothing is undone
S3_OnClientError ==
    /\ log' = [ log EXCEPT !.store_error = TRUE ]
    /\ Return("false")
    /\ UNCHANGED << store, loop_i >>

\* an error of upload_file that is not a ClientError (the clause names that one
\* class; the module imports NoCredentialsError beside it): nothing catches it
S3_OnOtherError ==
    /\ log' = [ log EXCEPT !.store_error = TRUE ]
    /\ UNCHANGED << store, loop_i >>
    /\ Raise

\* one pass of "for temp_file_path, photo_data in temp_files": upload_file under the
\* record's file name; a ClientError ends the batch with False, any other error
\* (of the store, or of a missing temp file) leaves the function uncaught
Upload_SendS3 ==
    /\ pc = "send"
    /\ backend = "s3"
    /\ LET entry == temp_files[loop_i]
           key == photo_urls[entry.idx].filename
           last == loop_i = Len(temp_files)
       IN  IF entry.path \notin TempNames(temp_dir)
           THEN UNCHANGED << store, log, loop_i >> /\ Raise
           ELSE \E outcome \in { "ok", "ClientError", "other" } :
                  CASE outcome = "ok" ->
                         /\ store' = Put(store, key, TempFile(temp_dir, entry.path).src,
                                         TempFile(temp_dir, entry.path).kind)
                         /\ log' = [ log EXCEPT !.ops = Append(@, <<"upload", key>>) ]
                         /\ IF last THEN Return("true") /\ UNCHANGED loop_i
                                    ELSE /\ loop_i' = loop_i + 1
                                         /\ UNCHANGED << pc, result, temp_dir, prev >>
                    [] outcome = "ClientError" -> S3_OnClientError
                    [] OTHER -> S3_OnOtherError
    /\ UNCHANGED << outside, release_exists, manifest, run, photo_urls, to_upload,
                    skipped_photos, temp_files >>

\* the store after the first k files of the batch were uploaded
RECURSIVE PutAll(_, _, _, _)
PutAll(st, td, files, k) ==
    IF k = 0 THEN st
    ELSE LET f == TempFile(td, files[k].path)
         IN  Put(PutAll(st, td, files, k - 1), f.name, f.src, f.kind)

\* "gh release upload tag file ...", one call without --clobber: it is refused
\* when a file is missing, named twice or names an asset the release holds;
\* otherwise it uploads the files in order and may fail before any of them
Upload_SendGitHub ==
    /\ pc = "send"
    /\ backend = "github"
    /\ LET n == Len(temp_files)
           names == { temp_files[i].path : i \in 1..n }
           refused == \/ names \ TempNames(temp_dir) # {}
                      \/ Cardinality(names) # n
                      \/ names \cap Keys(store) # {}
       IN  IF refused
           THEN /\ log' = [ log EXCEPT !.rejected = TRUE ]
                /\ Return("false")
                /\ UNCHANGED store
           ELSE \E k \in 0..n :
                  /\ store' = PutAll(store, temp_dir, temp_files, k)
                  /\ log' = [ log EXCEPT
                                !.ops = @ \o [ j \in 1..k |-> <<"upload", temp_files[j].path>> ],
                                !.store_error = (k < n) ]
                  /\ Return(IF k = n THEN "true" ELSE "false")
    /\ UNCHANGED << outside, release_exists, manifest, run, photo_urls, to_upload,
                    skipped_photos, temp_files, loop_i >>

\* main after the upload call: release_photos.py calls the upload function again
\* when --upload-only and --auto-upload are set and the first call did not succeed
Main_AfterUpload ==
    /\ pc = "returned"
    /\ UNCHANGED << outside, store, release_exists, manifest, run, photo_urls, temp_dir, log >>
    /\ IF /\ FirstUploadSite /\ SecondUploadSite
          /\ result # "true" /\ log.upload_calls = 1
       THEN /\ pc' = "connect"
            /\ result' = "none"
            /\ to_upload' = <<>>
            /\ skipped_photos' = <<>>
            /\ temp_files' = <<>>
            /\ loop_i' = 0
            /\ UNCHANGED prev
       ELSE /\ EndRun(result)
            /\ UNCHANGED << result, to_upload, skipped_photos, temp_files, loop_i >>

Next ==
    \/ Main_Generate
    \/ Main_UpdateManifest
    \/ Upload_Connect
    \/ Upload_Partition
    \/ Upload_Prepare
    \/ Upload_Classify
    \/ Upload_SendS3
    \/ Upload_SendGitHub
    \/ Main_AfterUpload
    \/ NextRun

Spec == Init /\ [][Next]_vars

SpecManifest == InitManifest /\ [][Next]_vars

-----------------------------------------------------------------------------
(* classify_image_with_ai, one call, request by request *)

max_retries == 3

valid_types ==
    { <<"e","x","t","e","r","i","o","r">>,
      <<"l","i","v","i","n","g">>,
      <<"k","i","t","c","h","e","n">>,
      <<"d","i","n","i","n","g">>,
      <<"b","e","d","r","o","o","m">>,
      <<"m","a","s","t","e","r">>,
      <<"b","a","t","h","r","o","o","m">>,
      <<"g","a","r","a","g","e">>,
      <<"c","l","o","s","e","t">>,
      <<"l","a","u","n","d","r","y">>,
      <<"u","t","i","l","i","t","y">>,
      <<"s","t","o","r","a","g","e">>,
      <<"o","f","f","i","c","e">>,
      <<"f","a","m","i","l","y">>,
      <<"d","e","n">>,
      <<"g","u","e","s","t">>,
      <<"b","a","s","e","m","e","n","t">>,
      <<"a","t","t","i","c">> }

\* str.strip(), for blanks
RECURSIVE Strip(_)
Strip(s) ==
    IF s = <<>> THEN s
    ELSE IF Head(s) = " " THEN Strip(Tail(s))
    ELSE IF s[Len(s)] = " " THEN Strip(SubSeq(s, 1, Len(s) - 1))
    ELSE s

\* what the model may send back as message content: the room types as they
\* are, one with a capital and a blank, and answers outside the vocabulary
ModelAnswers ==
    valid_types \cup { <<"D","e","n"," ">>, <<"s","o","f","a">>, <<"a"," ","d","e","n">>, <<>> }

\* response.choices[0].message.content.strip().lower()
classification_of(content) == Lower(Strip(content))

\* classify_attempt without the "if classification in valid_types" test
classify_attempt_unchecked(attempt, reply) ==
    IF reply.error
    THEN IF attempt < max_retries - 1
         THEN [ done |-> FALSE, result |-> None ]
         ELSE [ done |-> TRUE, result |-> None ]
    ELSE [ done |-> TRUE, result |-> classification_of(reply.content) ]

\* one pass of "for attempt in range(max_retries)"; reply is [error, content].
\* The result is [done, result]: done = FALSE stands for "continue"
classify_attempt(attempt, reply) ==
    IF reply.error
    THEN IF attempt < max_retries - 1
         THEN [ done |-> FALSE, result |-> None ]
         ELSE [ done |-> TRUE, result |-> None ]
    ELSE IF classification_of(reply.content) \in valid_types
         THEN [ done |-> TRUE, result |-> classification_of(reply.content) ]
         ELSE [ done |-> FALSE, result |-> None ]

\* the pipeline's variables, which a call of the classifier leaves alone
pipeline == << backend, args, srcdir, store, release_exists, manifest, pc, run, photo_urls,
               to_upload, skipped_photos, temp_dir, temp_files, loop_i, result, log, prev >>

\* Classify_Begin without the "if not api_key" test
Classify_Begin_NoKeyTest ==
    /\ cls.pc = "idle"
    /\ \E readable \in BOOLEAN :
         cls' = IF env.OPENAI_AVAILABLE /\ readable
                THEN [ cls EXCEPT !.pc = "loop" ]
                ELSE [ cls EXCEPT !.pc = "done", !.result = None ]
    /\ UNCHANGED << pipeline, env, naming, image, mp >>

\* the guards before the loop: the library, the key, reading the image file
Classify_Begin ==
    /\ cls.pc = "idle"
    /\ \E readable \in BOOLEAN :
         cls' = IF env.OPENAI_AVAILABLE /\ env.OPENAI_API_KEY /\ readable
                THEN [ cls EXCEPT !.pc = "loop" ]
                ELSE [ cls EXCEPT !.pc = "done", !.result = None ]
    /\ UNCHANGED << pipeline, env, naming, image, mp >>

\* one request to the model and what the loop does with the reply; the loop
\* ends with "return None" after the pass with attempt = max_retries - 1
Classify_Attempt ==
    /\ cls.pc = "loop"
    /\ cls.attempt < max_retries
    /\ \E reply \in { [ error |-> TRUE, content |-> <<>> ] }
                    \cup { [ error |-> FALSE, content |-> c ] : c \in ModelAnswers } :
         LET r == classify_attempt(cls.attempt, reply)
             kind == IF reply.error THEN "error"
                     ELSE IF classification_of(reply.content) \in valid_types THEN "valid"
                     ELSE "other"
             over == r.done \/ cls.attempt + 1 >= max_retries
         IN  cls' = [ pc       |-> IF over THEN "done" ELSE "loop",
                      attempt  |-> cls.attempt + 1,
                      requests |-> cls.requests + 1,
                      result   |-> r.result,
                      answers  |-> Append(cls.answers, kind) ]
    /\ UNCHANGED << pipeline, env, naming, image, mp >>

InitClassify ==
    /\ backend = "s3"
    /\ args = ArgsOf(FALSE, FALSE, TRUE, FALSE, "")
    /\ env \in [ PIL_AVAILABLE : { TRUE }, OPENAI_AVAILABLE : BOOLEAN, OPENAI_API_KEY : BOOLEAN,
                 CORRUPT : { {} } ]
    /\ srcdir = { <<"a",".","j","p","g">> }
    /\ store = {}
    /\ release_exists = FALSE
    /\ manifest = ManifestFile("absent", EmptyData)
    /\ pc = "start"
    /\ run = 1
    /\ photo_urls = <<>>
    /\ to_upload = <<>>
    /\ skipped_photos = <<>>
    /\ temp_dir = {}
    /\ temp_files = <<>>
    /\ loop_i = 0
    /\ result = "none"
    /\ log = [ NoLog EXCEPT !.manifest_before = manifest ]
    /\ prev = NoPrev
    /\ cls = ClsIdle
    /\ naming = NamingIdle
    /\ image = ImageIdle
    /\ mp = MpIdle

NextClassify == Classify_Begin \/ Classify_Attempt

SpecClassify == InitClassify /\ [][NextClassify]_vars

-----------------------------------------------------------------------------
(* Runs with --ai-classify under every combination of the two capabilities of    *)
(* classification, and a call of classify_image_with_ai in the same environment *)

InitCapability ==
    /\ backend \in { "github", "s3" }
    /\ args = ArgsOf(FALSE, FALSE, TRUE, FALSE, "")
    /\ env \in [ PIL_AVAILABLE : { TRUE }, OPENAI_AVAILABLE : BOOLEAN, OPENAI_API_KEY : BOOLEAN,
                 CORRUPT : { {} } ]
    /\ srcdir \in { { <<"a",".","j","p","g">> }, { <<"a",".","p","n","g">> } }
    /\ store = {}
    /\ release_exists = FALSE
    /\ manifest = ManifestFile("absent", EmptyData)
    /\ pc = "start"
    /\ run = 1
    /\ photo_urls = <<>>
    /\ to_upload = <<>>
    /\ skipped_photos = <<>>
    /\ temp_dir = {}
    /\ temp_files = <<>>
    /\ loop_i = 0
    /\ result = "none"
    /\ log = [ NoLog EXCEPT !.manifest_before = manifest ]
    /\ prev = NoPrev
    /\ cls = ClsIdle
    /\ naming = NamingIdle
    /\ image = ImageIdle
    /\ mp = MpIdle

NextCapability ==
    \/ Main_Generate
    \/ Main_UpdateManifest
    \/ Upload_Connect
    \/ Upload_Partition
    \/ Upload_Prepare
    \/ Upload_Classify
    \/ Upload_SendS3
    \/ Upload_SendGitHub
    \/ Main_AfterUpload
    \/ NextRun
    \/ Classify_Begin
    \/ Classify_Attempt

SpecCapability == InitCapability /\ [][NextCapability]_vars

-----------------------------------------------------------------------------
(* Runs during which source files disappear from the --photos directory *)

\* a file is removed from the directory after discovery and before the prepare
\* loop looks for it
Env_RemoveFile ==
    /\ pc \in { "manifest", "connect", "partition", "prepare" }
    /\ \E f \in srcdir : srcdir' = srcdir \ { f }
    /\ UNCHANGED << backend, args, env, cls, naming, image, mp, store, release_exists, manifest, pc, run, photo_urls,
                    to_upload, skipped_photos, temp_dir, temp_files, loop_i, result, log, prev >>

InitNotFound ==
    /\ backend \in { "github", "s3" }
    /\ args \in { ArgsOf(FALSE, FALSE, ai, FALSE, "") : ai \in BOOLEAN }
    /\ env = NormalEnv
    /\ srcdir = { <<"a",".","j","p","g">>, <<"b",".","j","p","g">> }
    /\ store = {}
    /\ release_exists = FALSE
    /\ manifest = ManifestFile("absent", EmptyData)
    /\ pc = "start"
    /\ run = 1
    /\ photo_urls = <<>>
    /\ to_upload = <<>>
    /\ skipped_photos = <<>>
    /\ temp_dir = {}
    /\ temp_files = <<>>
    /\ loop_i = 0
    /\ result = "none"
    /\ log = [ NoLog EXCEPT !.manifest_before = manifest ]
    /\ prev = NoPrev
    /\ cls = ClsIdle
    /\ naming = NamingIdle
    /\ image = ImageIdle
    /\ mp = MpIdle

NextNotFound ==
    \/ Main_Generate
    \/ Main_UpdateManifest
    \/ Upload_Connect
    \/ Upload_Partition
    \/ Upload_Prepare
    \/ Upload_Classify
    \/ Upload_SendS3
    \/ Upload_SendGitHub
    \/ Main_AfterUpload
    \/ NextRun
    \/ Env_RemoveFile

SpecNotFound == InitNotFound /\ [][NextNotFound]_vars

-----------------------------------------------------------------------------
(* Calls of the naming functions on their own *)

MaxCalls == 2       \* the calls of each naming function on the same arguments

ShootIds ==
    { Lakehouse, OtherShoot,
      <<"L","a","k","e"," ","H","s","e">>,
      <<"s","u","g","a","r","-","m","i","l","l","-","p","o","o","l","-","h","o","m","e">>,
      <<"P","o","o","l","_","H","o","m","e"," ","2","0","2","4">> }

PrefixMethods == { "hash", "simple", "sequential" }

\* file names with the four extensions, in several letter cases, with stems that
\* are plain, numeric, made of separators only, empty, or hold a dot
OriginalFilenames ==
    { <<"a",".","j","p","g">>,
      <<"A",".","J","P","G">>,
      <<"i","m","g","_","0","1",".","j","p","e","g">>,
      <<"1","2","3",".","p","n","g">>,
      <<"-","_",".","w","e","b","p">>,
      <<".","j","p","g">>,
      <<"a","-","b",".","P","n","g">>,
      <<"x",".","y",".","W","E","B","P">> }

\* generate_unique_prefix(shoot_name, method) is called once more
Naming_Prefix ==
    /\ Len(naming.prefixes) < MaxCalls
    /\ naming' = [ naming EXCEPT !.prefixes =
                      Append(@, generate_unique_prefix(naming.shoot_name, naming.method)) ]
    /\ UNCHANGED << pipeline, env, cls, image, mp >>

\* generate_prefixed_filename(original_filename, prefix, counter, room_type) is
\* called once more, with the prefix the first call returned
Naming_Filename ==
    /\ naming.prefixes # <<>>
    /\ Len(naming.filenames) < MaxCalls
    /\ naming' = [ naming EXCEPT !.filenames =
                      Append(@, generate_prefixed_filename(naming.original_filename,
                                    naming.prefixes[1], naming.counter, naming.room_type)) ]
    /\ UNCHANGED << pipeline, env, cls, image, mp >>

InitNaming ==
    /\ backend = "s3"
    /\ args = ArgsOf(FALSE, FALSE, FALSE, FALSE, "")
    /\ env = NormalEnv
    /\ srcdir = { <<"a",".","j","p","g">> }
    /\ store = {}
    /\ release_exists = FALSE
    /\ manifest = ManifestFile("absent", EmptyData)
    /\ pc = "start"
    /\ run = 1
    /\ photo_urls = <<>>
    /\ to_upload = <<>>
    /\ skipped_photos = <<>>
    /\ temp_dir = {}
    /\ temp_files = <<>>
    /\ loop_i = 0
    /\ result = "none"
    /\ log = [ NoLog EXCEPT !.manifest_before = manifest ]
    /\ prev = NoPrev
    /\ cls = ClsIdle
    /\ image = ImageIdle
    /\ mp = MpIdle
    /\ \E id \in ShootIds, m \in PrefixMethods, f \in OriginalFilenames,
          c \in { <<>>, <<7>> }, r \in { None, Kitchen } :
         naming = [ shoot_name |-> id, method |-> m, original_filename |-> f,
                    counter |-> c, room_type |-> r, prefixes |-> <<>>, filenames |-> <<>> ]

NextNaming == Naming_Prefix \/ Naming_Filename

SpecNaming == InitNaming /\ [][NextNaming]_vars

-----------------------------------------------------------------------------
(* Runs on the directory A.JPG, b_two.png, 3.jpg of shoot lakehouse *)

ScenarioFiles ==
    { <<"A",".","J","P","G">>,
      <<"b","_","t","w","o",".","p","n","g">>,
      <<"3",".","j","p","g">> }

InitScenario ==
    /\ backend \in { "github", "s3" }
    /\ args \in { ArgsOf(FALSE, d, ai, FALSE, "") : d \in BOOLEAN, ai \in BOOLEAN }
    /\ env = NormalEnv
    /\ srcdir = ScenarioFiles
    /\ store = {}
    /\ release_exists = FALSE
    /\ manifest = ManifestFile("absent", EmptyData)
    /\ pc = "start"
    /\ run = 1
    /\ photo_urls = <<>>
    /\ to_upload = <<>>
    /\ skipped_photos = <<>>
    /\ temp_dir = {}
    /\ temp_files = <<>>
    /\ loop_i = 0
    /\ result = "none"
    /\ log = [ NoLog EXCEPT !.manifest_before = manifest ]
    /\ prev = NoPrev
    /\ cls = ClsIdle
    /\ naming = NamingIdle
    /\ image = ImageIdle
    /\ mp = MpIdle

SpecScenario == InitScenario /\ [][Next]_vars

-----------------------------------------------------------------------------
(* Runs without PIL, and runs on source files PIL cannot process *)

InitTranscode ==
    /\ backend \in { "github", "s3" }
    /\ args \in { ArgsOf(FALSE, FALSE, ai, FALSE, "") : ai \in BOOLEAN }
    /\ srcdir \in { { <<"a",".","j","p","g">> },
                    { <<"a",".","p","n","g">>, <<"b",".","j","p","g">> } }
    /\ env \in { [ NormalEnv EXCEPT !.PIL_AVAILABLE = pil, !.CORRUPT = c ] :
                    pil \in BOOLEAN, c \in SUBSET srcdir }
    /\ store = {}
    /\ release_exists = FALSE
    /\ manifest = ManifestFile("absent", EmptyData)
    /\ pc = "start"
    /\ run = 1
    /\ photo_urls = <<>>
    /\ to_upload = <<>>
    /\ skipped_photos = <<>>
    /\ temp_dir = {}
    /\ temp_files = <<>>
    /\ loop_i = 0
    /\ result = "none"
    /\ log = [ NoLog EXCEPT !.manifest_before = manifest ]
    /\ prev = NoPrev
    /\ cls = ClsIdle
    /\ naming = NamingIdle
    /\ image = ImageIdle
    /\ mp = MpIdle

SpecTranscode == InitTranscode /\ [][Next]_vars

-----------------------------------------------------------------------------
(* Runs under every combination of --dry-run, --auto-upload, --upload-only and *)
(* --force-reupload (release_photos_s3.py has no --upload-only)               *)

InitDryRun ==
    /\ backend \in { "github", "s3" }
    /\ args \in { [ ArgsOf(f, FALSE, TRUE, FALSE, "") EXCEPT
                       !.dry_run = dry, !.auto_upload = auto, !.upload_only = only ] :
                     f \in BOOLEAN, dry \in BOOLEAN, auto \in BOOLEAN,
                     only \in (IF backend = "github" THEN BOOLEAN ELSE { FALSE }) }
    /\ env = NormalEnv
    /\ srcdir = { <<"a",".","j","p","g">>, <<"b",".","j","p","g">> }
    /\ store = {}
    /\ release_exists = FALSE
    /\ manifest = ManifestFile("absent", EmptyData)
    /\ pc = "start"
    /\ run = 1
    /\ photo_urls = <<>>
    /\ to_upload = <<>>
    /\ skipped_photos = <<>>
    /\ temp_dir = {}
    /\ temp_files = <<>>
    /\ loop_i = 0
    /\ result = "none"
    /\ log = [ NoLog EXCEPT !.manifest_before = manifest ]
    /\ prev = NoPrev
    /\ cls = ClsIdle
    /\ naming = NamingIdle
    /\ image = ImageIdle
    /\ mp = MpIdle

SpecDryRun == InitDryRun /\ [][Next]_vars

-----------------------------------------------------------------------------
(* Runs with --ai-classify under --sequential and under both prefix methods *)

InitRename ==
    /\ backend \in { "github", "s3" }
    /\ args \in { [ ArgsOf(FALSE, d, TRUE, seq, "") EXCEPT !.prefix_method = m ] :
                     d \in BOOLEAN, seq \in BOOLEAN, m \in { "hash", "simple" } }
    /\ env = NormalEnv
    /\ srcdir \in { { <<"a",".","j","p","g">> },
                    { <<"a",".","j","p","g">>, <<"b",".","j","p","g">> } }
    /\ store = {}
    /\ release_exists = FALSE
    /\ manifest = ManifestFile("absent", EmptyData)
    /\ pc = "start"
    /\ run = 1
    /\ photo_urls = <<>>
    /\ to_upload = <<>>
    /\ skipped_photos = <<>>
    /\ temp_dir = {}
    /\ temp_files = <<>>
    /\ loop_i = 0
    /\ result = "none"
    /\ log = [ NoLog EXCEPT !.manifest_before = manifest ]
    /\ prev = NoPrev
    /\ cls = ClsIdle
    /\ naming = NamingIdle
    /\ image = ImageIdle
    /\ mp = MpIdle

SpecRename == InitRename /\ [][Next]_vars

-----------------------------------------------------------------------------
(* Discovery of release_photos.py under --max-depth, without upload *)

MaxDepth == 2       \* the largest --max-depth given, and the depth of the deepest file

\* files at depth 0, 1 and 2, one of them no photo
DiscoveryUniverse ==
    { <<"a",".","j","p","g">>,
      <<"B",".","P","N","G">>,
      <<"n",".","t","x","t">>,
      <<"s","/","c",".","p","n","g">>,
      <<"s","/","t","/","d",".","w","e","b","p">> }

InitDiscovery ==
    /\ backend = "github"
    /\ args \in { [ ArgsOf(FALSE, FALSE, FALSE, FALSE, "") EXCEPT
                       !.auto_upload = FALSE, !.max_depth = d ] :
                     d \in { <<>> } \cup { <<n>> : n \in 0..MaxDepth } }
    /\ env = NormalEnv
    /\ srcdir \in SUBSET DiscoveryUniverse
    /\ store = {}
    /\ release_exists = FALSE
    /\ manifest = ManifestFile("absent", EmptyData)
    /\ pc = "start"
    /\ run = 1
    /\ photo_urls = <<>>
    /\ to_upload = <<>>
    /\ skipped_photos = <<>>
    /\ temp_dir = {}
    /\ temp_files = <<>>
    /\ loop_i = 0
    /\ result = "none"
    /\ log = [ NoLog EXCEPT !.manifest_before = manifest ]
    /\ prev = NoPrev
    /\ cls = ClsIdle
    /\ naming = NamingIdle
    /\ image = ImageIdle
    /\ mp = MpIdle

NextDiscovery == Main_Generate \/ Main_UpdateManifest \/ NextRun

SpecDiscovery == InitDiscovery /\ [][NextDiscovery]_vars


-----------------------------------------------------------------------------
(* The size computation of downsample_image *)

MaxSide == 6        \* the largest width and height of the image opened
MaxBound == 3       \* the largest max_width and max_height

\* ratio = min(max_width / width, max_height / height), as the fraction
\* << numerator, denominator >>
ratio(width, height, max_width, max_height) ==
    IF max_width * height <= max_height * width
    THEN << max_width, width >>
    ELSE << max_height, height >>

\* int(x * ratio): the product is not negative, so int() is the floor
scaled(x, r) == (x * r[1]) \div r[2]

\* (new_width, new_height)
new_size(width, height, max_width, max_height) ==
    LET r == ratio(width, height, max_width, max_height)
    IN  << scaled(width, r), scaled(height, r) >>

\* the "if width <= max_width and height <= max_height" test
within_bounds(width, height, max_width, max_height) ==
    width <= max_width /\ height <= max_height

\* downsample_image with PIL on an image of image.width x image.height: the
\* size of the file written to output_path. What img.resize does with a
\* dimension of 0 is PIL's: it returns an image of that size, or it raises and
\* the except branch copies the original
Downsample_Resize ==
    /\ image.pc = "open"
    /\ LET w  == image.width
           h  == image.height
           mw == image.max_width
           mh == image.max_height
           n  == new_size(w, h, mw, mh)
       IN  IF within_bounds(w, h, mw, mh)
           THEN image' = [ image EXCEPT !.pc = "saved", !.out = << w, h >>, !.how = "unchanged" ]
           ELSE IF n[1] >= 1 /\ n[2] >= 1
           THEN image' = [ image EXCEPT !.pc = "saved", !.out = n, !.how = "resized" ]
           ELSE \E raises \in BOOLEAN :
                   image' = IF raises
                            THEN [ image EXCEPT !.pc = "saved", !.out = << w, h >>, !.how = "copied" ]
                            ELSE [ image EXCEPT !.pc = "saved", !.out = n, !.how = "resized" ]
    /\ UNCHANGED << pipeline, env, cls, naming, mp >>

InitResize ==
    /\ backend = "s3"
    /\ args = ArgsOf(FALSE, FALSE, FALSE, FALSE, "")
    /\ env = NormalEnv
    /\ srcdir = { <<"a",".","j","p","g">> }
    /\ store = {}
    /\ release_exists = FALSE
    /\ manifest = ManifestFile("absent", EmptyData)
    /\ pc = "start"
    /\ run = 1
    /\ photo_urls = <<>>
    /\ to_upload = <<>>
    /\ skipped_photos = <<>>
    /\ temp_dir = {}
    /\ temp_files = <<>>
    /\ loop_i = 0
    /\ result = "none"
    /\ log = [ NoLog EXCEPT !.manifest_before = manifest ]
    /\ prev = NoPrev
    /\ cls = ClsIdle
    /\ naming = NamingIdle
    /\ mp = MpIdle
    /\ \E w \in 1..MaxSide, h \in 1..MaxSide, mw \in 1..MaxBound, mh \in 1..MaxBound :
         image = [ pc |-> "open", width |-> w, height |-> h, max_width |-> mw, max_height |-> mh,
                   out |-> <<>>, how |-> "none" ]

NextResize == Downsample_Resize

SpecResize == InitResize /\ [][NextResize]_vars


-----------------------------------------------------------------------------
(* manage_photos.py *)

MaxManageRuns == 2      \* the invocations of manage_photos.py, one after another
MaxEdits == 1           \* the titles the operator edits by hand

PHOTOS_DIR == <<"a","s","s","e","t","s","/","r","e","a","l","-","e","s","t","a","t","e">>

LakeHome == <<"l","a","k","e","-","h","o","m","e">>
CityLoft == <<"c","i","t","y","_","l","o","f","t">>
OldBarn == <<"o","l","d","-","b","a","r","n">>
HiddenDir == <<".","c","a","c","h","e">>

\* sample_shoots of create_sample_structure
sample_shoots ==
    << <<"l","u","x","u","r","y","-","w","a","t","e","r","f","r","o","n","t","-","e","s","t","a","t","e">>,
       <<"m","o","d","e","r","n","-","o","f","f","i","c","e","-","c","o","m","p","l","e","x">>,
       <<"s","u","b","u","r","b","a","n","-","f","a","m","i","l","y","-","h","o","m","e">>,
       <<"b","e","a","c","h","f","r","o","n","t","-","c","o","n","d","o","m","i","n","i","u","m">> >>

Readme == <<"R","E","A","D","M","E",".","m","d">>

image_extensions ==
    << <<".","j","p","g">>, <<".","j","p","e","g">>, <<".","p","n","g">>, <<".","w","e","b","p">> >>

IsLetter(c) == c \in Range(UpperChars) \cup Range(LowerChars)

\* str.title(): a letter is upper-cased at the start and after a character that
\* is no letter, lower-cased after a letter
Title(s) ==
    [ i \in DOMAIN s |->
        IF i = 1 \/ ~IsLetter(s[i - 1]) THEN UpperChar(s[i]) ELSE LowerChar(s[i]) ]

\* shoot_name.replace("-", " ").replace("_", " ")
shoot_title(shoot_name) == ReplaceChar(ReplaceChar(shoot_name, "-", " "), "_", " ")

\* the caption of an image: the three lower-case extensions are removed, the
\* separators become spaces, then title()
caption(img_name) ==
    LET a == ReplaceAll(img_name, <<".","j","p","g">>, <<>>)
        b == ReplaceAll(a, <<".","j","p","e","g">>, <<>>)
        c == ReplaceAll(b, <<".","p","n","g">>, <<>>)
    IN  Title(ReplaceChar(ReplaceChar(c, "-", " "), "_", " "))

\* glob of "*.jpg", "*.JPG", ... in a shoot directory, on a file system that
\* tells the cases apart: "*" matches no leading dot
images_of(files) ==
    { f \in files :
        /\ Head(f) # "."
        /\ \E i \in DOMAIN image_extensions :
              EndsWith(f, image_extensions[i]) \/ EndsWith(f, Upper(image_extensions[i])) }

\* photo_data[shoot_name] of scan_photos_directory; the paths of one directory
\* sort as their file names do
scan_entry(shoot_name, files) ==
    LET sorted == SortedSeq(images_of(files))
    IN  [ title       |-> Title(shoot_title(shoot_name)),
          description |-> <<"P","r","o","f","e","s","s","i","o","n","a","l"," ","a","e","r","i","a","l"," ","p","h","o","t","o","g","r","a","p","h","y"," ","o","f"," ">> \o shoot_title(shoot_name),
          category    |-> "residential",
          images      |-> [ i \in DOMAIN sorted |->
                              [ url     |-> Join(<< PHOTOS_DIR, shoot_name, sorted[i] >>, <<"/">>),
                                caption |-> caption(sorted[i]) ] ] ]

\* scan_photos_directory: without PHOTOS_DIR nothing is found; hidden
\* directories and directories without images give no entry
scan_photos_directory(exists, dirs) ==
    IF ~exists THEN EmptyData
    ELSE [ s \in { d \in DOMAIN dirs : Head(d) # "." /\ images_of(dirs[d]) # {} } |->
             scan_entry(s, dirs[s]) ]

\* load_existing_config: {} without a file and for a file that is not JSON
load_existing_config(file) == IF file.state = "ok" THEN file.data ELSE EmptyData

\* the merge that puts the scanned entry in place of an entry of the configuration
merge_ReplacingEntry(existing_config, scanned_data) ==
    [ s \in DOMAIN existing_config \cup DOMAIN scanned_data |->
        IF s \in DOMAIN scanned_data THEN scanned_data[s] ELSE existing_config[s] ]

\* main, "Merge with existing configuration": merged_data
merge(existing_config, scanned_data) ==
    [ s \in DOMAIN existing_config \cup DOMAIN scanned_data |->
        IF s \notin DOMAIN scanned_data THEN existing_config[s]
        ELSE IF s \in DOMAIN existing_config
        THEN [ existing_config[s] EXCEPT !.images = scanned_data[s].images ]
        ELSE scanned_data[s] ]

\* update_javascript_file: the file is written when it exists and holds the
\* portfolioData object, which is replaced
update_javascript_file(js, photo_data) ==
    IF js.state = "ok" THEN [ state |-> "ok", data |-> photo_data ] ELSE js

\* create_sample_structure: the four directories, each with a README.md
create_sample_structure(dirs) ==
    [ s \in DOMAIN dirs \cup Range(sample_shoots) |->
        IF s \in Range(sample_shoots)
        THEN (IF s \in DOMAIN dirs THEN dirs[s] ELSE {}) \cup { Readme }
        ELSE dirs[s] ]

\* main of manage_photos.py
Manage_Main ==
    /\ mp.pc = "ready"
    /\ \E create_sample \in BOOLEAN, scan_only \in BOOLEAN :
         LET a == [ create_sample |-> create_sample, scan_only |-> scan_only ]
             existing_config == load_existing_config(mp.config)
             scanned_data == scan_photos_directory(mp.exists, mp.dirs)
             merged_data == merge(existing_config, scanned_data)
             start == [ mp EXCEPT !.pc = "done", !.args = a, !.exists = TRUE,
                                  !.before = [ config |-> mp.config, js |-> mp.js ] ]
         IN  IF create_sample
             THEN mp' = [ start EXCEPT !.dirs = create_sample_structure(mp.dirs),
                                       !.scanned = EmptyData, !.merged = EmptyData,
                                       !.writes = {} ]
             ELSE IF scan_only
             THEN mp' = [ start EXCEPT !.scanned = scanned_data, !.merged = merged_data,
                                       !.writes = {} ]
             ELSE mp' = [ start EXCEPT
                            !.scanned = scanned_data, !.merged = merged_data,
                            !.config = ManifestFile("ok", merged_data),
                            !.js = update_javascript_file(mp.js, merged_data),
                            !.writes = { "config" }
                                         \cup (IF mp.js.state = "ok" THEN { "js" } ELSE {}) ]
    /\ UNCHANGED << pipeline, env, cls, naming, image >>

\* the title an operator gives a shoot
EditedTitle == <<"E","d","i","t","e","d">>

\* the operator edits the title of a shoot in photos.json by hand
Operator_EditsTitle ==
    /\ mp.pc = "ready"
    /\ mp.config.state = "ok"
    /\ mp.edits < MaxEdits
    /\ \E s \in DOMAIN mp.config.data :
         /\ mp.config.data[s].title # EditedTitle
         /\ mp' = [ mp EXCEPT !.config.data[s].title = EditedTitle, !.edits = @ + 1 ]
    /\ UNCHANGED << pipeline, env, cls, naming, image >>

\* the next invocation
Manage_NextRun ==
    /\ mp.pc = "done"
    /\ mp.run < MaxManageRuns
    /\ mp' = [ mp EXCEPT !.pc = "ready", !.run = @ + 1, !.writes = {} ]
    /\ UNCHANGED << pipeline, env, cls, naming, image >>

BarnEntry ==
    [ title |-> <<"B","a","r","n">>, description |-> <<"A"," ","b","a","r","n">>, category |-> "commercial",
      images |-> << [ url |-> Join(<< PHOTOS_DIR, OldBarn, <<"x",".","j","p","g">> >>, <<"/">>),
                      caption |-> <<"X">> ] >> ]

LakeEntry ==
    [ title |-> <<"L","a","k","e">>, description |-> <<"A"," ","l","a","k","e">>, category |-> "waterfront",
      images |-> << >> ]

\* photos.json as a run may find it
ConfigFiles ==
    { ManifestFile("absent", EmptyData),
      ManifestFile("corrupt", EmptyData),
      ManifestFile("ok", (OldBarn :> BarnEntry)),
      ManifestFile("ok", (OldBarn :> BarnEntry) @@ (LakeHome :> LakeEntry)) }

\* the files a shoot directory may hold
DirContents ==
    { {},
      { <<"b","-","1",".","j","p","g">>, <<"A",".","J","P","G">> },
      { <<"n",".","t","x","t">>, <<"c","_","d",".","w","e","b","p">> } }

\* assets/real-estate as a run may find it: missing, or with some of the
\* directories lake-home, city_loft and .cache
DirTrees ==
    { [ exists |-> FALSE, dirs |-> EmptyData ] }
    \cup { [ exists |-> TRUE, dirs |-> d ] :
             d \in UNION { [ D -> DirContents ] : D \in SUBSET { LakeHome, HiddenDir } } }
    \cup { [ exists |-> TRUE, dirs |-> (LakeHome :> l) @@ (CityLoft :> c) ] :
             l \in DirContents, c \in DirContents \ { {} } }

\* real-estate.js: missing, without the portfolioData object, or with it
JsFiles ==
    { [ state |-> "absent", data |-> EmptyData ],
      [ state |-> "no_marker", data |-> EmptyData ],
      [ state |-> "ok", data |-> EmptyData ] }

InitManage ==
    /\ backend = "s3"
    /\ args = ArgsOf(FALSE, FALSE, FALSE, FALSE, "")
    /\ env = NormalEnv
    /\ srcdir = { <<"a",".","j","p","g">> }
    /\ store = {}
    /\ release_exists = FALSE
    /\ manifest = ManifestFile("absent", EmptyData)
    /\ pc = "start"
    /\ run = 1
    /\ photo_urls = <<>>
    /\ to_upload = <<>>
    /\ skipped_photos = <<>>
    /\ temp_dir = {}
    /\ temp_files = <<>>
    /\ loop_i = 0
    /\ result = "none"
    /\ log = [ NoLog EXCEPT !.manifest_before = manifest ]
    /\ prev = NoPrev
    /\ cls = ClsIdle
    /\ naming = NamingIdle
    /\ image = ImageIdle
    /\ \E c \in ConfigFiles, t \in DirTrees, j \in JsFiles :
         mp = [ MpIdle EXCEPT !.pc = "ready", !.exists = t.exists, !.dirs = t.dirs,
                              !.config = c, !.js = j,
                              !.before = [ config |-> c, js |-> j ],
                              !.scanned = EmptyData, !.merged = EmptyData ]

NextManage == Manage_Main \/ Operator_EditsTitle \/ Manage_NextRun

SpecManage == InitManage /\ [][NextManage]_vars

-----------------------------------------------------------------------------
(* Properties *)

\* the file names generate_photo_urls gave the photos of this directory
GeneratedNames ==
    LET urls == generate_photo_urls(args.shoot, photo_files_of(backend, srcdir, args.max_depth),
                                    ~args.no_prefix, args.prefix_method, args.sequential)
    IN  [ i \in DOMAIN urls |-> urls[i].filename ]

Distinct(s) == \A i, j \in DOMAIN s : i # j => s[i] # s[j]

\* no two source files share the stem of their file name
DistinctStems(dir) ==
    \A f, g \in dir : f # g => splitext(basename(f))[1] # splitext(basename(g))[1]

\* the positions of the deletes and of the uploads of key among the store operations
DeletesOf(ops, key) == { i \in DOMAIN ops : ops[i] = <<"delete", key>> }
UploadsOf(ops, key) == { i \in DOMAIN ops : ops[i] = <<"upload", key>> }

\* the second of two runs followed a run that succeeded, and saw the store as it is
AfterCleanRun ==
    /\ pc = "done" /\ run = 2
    /\ prev.ran /\ prev.result = "true" /\ ~prev.store_error /\ ~prev.list_lost
    /\ log.connected /\ ~log.list_lost

\* C1: idempotence of re-runs. With force-reupload off (and no classification,
\* so that nothing depends on what the model answers), the second of two runs
\* on the same directory and arguments, the first of which succeeded and in
\* which the store does not fail, uploads no file and skips every photo.
C1_SecondRunUploadsNothing ==
    (AfterCleanRun /\ ~log.store_error /\ ~args.force_reupload /\ ~args.ai_classify)
        => /\ Uploads(log.ops) = <<>>
           /\ Len(skipped_photos) = Len(photo_urls)

\* C2: target-filename uniqueness. The records generate_github_urls /
\* generate_photo_urls made for the distinct files of one directory have
\* pairwise distinct file names.
C2_TargetFilenamesDistinct ==
    pc = "manifest" => Distinct([ i \in DOMAIN photo_urls |-> photo_urls[i].filename ])

\* C3: no silent overwrite in the upload phase. When the generated names are
\* pairwise distinct, the temp files prepared for distinct photos are pairwise
\* distinct paths and the temporary directory holds one file for each of them
\* when they are handed to the store.
C3_TempFilesDistinct ==
    (pc = "send" /\ Distinct(GeneratedNames))
        => /\ Distinct([ i \in DOMAIN temp_files |-> temp_files[i].path ])
           /\ Cardinality(temp_dir) = Len(temp_files)

\* C4: force-reupload. In a successful run with --force-reupload that listed the
\* store as it was (a directory with no two files of the same stem), every
\* target key the listing held was deleted once and uploaded once, the delete
\* before the upload, and the store ends with exactly one object for every photo.
C4_ForceDeletesThenUploadsOnce ==
    ( /\ pc = "done" /\ args.force_reupload /\ result = "true"
      /\ log.connected /\ ~log.list_lost /\ DistinctStems(srcdir) )
        => /\ \A i \in DOMAIN GeneratedNames :
                GeneratedNames[i] \in log.listed
                    => /\ Cardinality(DeletesOf(log.ops, GeneratedNames[i])) = 1
                       /\ Cardinality(UploadsOf(log.ops, GeneratedNames[i])) = 1
                       /\ \A d \in DeletesOf(log.ops, GeneratedNames[i]) :
                            \A u \in UploadsOf(log.ops, GeneratedNames[i]) : d < u
           /\ \A f \in srcdir : Cardinality({ o \in store : o.src = f }) = 1

\* C5: manifest merge. When the manifest held an entry of the shoot before the
\* run wrote it, the entry keeps its title, description and category; the
\* entries of the other shoots are unchanged.
C5_MergeKeepsMetadata ==
    (log.manifest_written /\ log.manifest_before.state = "ok")
        => /\ manifest.state = "ok"
           /\ \A s \in DOMAIN log.manifest_before.data :
                /\ s \in DOMAIN manifest.data
                /\ manifest.data[s].title = log.manifest_before.data[s].title
                /\ manifest.data[s].description = log.manifest_before.data[s].description
                /\ manifest.data[s].category = log.manifest_before.data[s].category
                /\ s # args.shoot => manifest.data[s] = log.manifest_before.data[s]

\* C6: manifest corruption never crashes a run. A run that found an unparseable
\* manifest does not end with an uncaught error and has written the manifest
\* anew, from an empty one.
C6_CorruptManifestNoCrash ==
    (pc = "done" /\ log.manifest_before.state = "corrupt")
        => /\ result # "raised"
           /\ manifest.state = "ok"
           /\ DOMAIN manifest.data = { args.shoot }

\* C7: manifest write ordering. A run whose upload phase failed leaves the
\* manifest file as it was before the run, and the manifest is written only
\* once the upload function has returned success.
C7_ManifestWrittenAfterUpload ==
    /\ (pc = "done" /\ args.auto_upload /\ result = "false") => manifest = log.manifest_before
    /\ (args.auto_upload /\ manifest # log.manifest_before) => result = "true"

\* C8: store failure during upload. Once the store has failed on a file of the
\* batch, the upload function has returned False to its caller, the uploads of
\* the call are fewer than the files prepared, no delete follows an upload, and
\* every file uploaded before the failure is in the store.
C8_StoreFailureReturnsFalse ==
    log.store_error
        => /\ pc \in { "returned", "done" }
           /\ result = "false"
           /\ Len(Uploads(log.ops)) < Len(temp_files)
           /\ \A j \in DOMAIN Uploads(log.ops) : Uploads(log.ops)[j] \in Keys(store)
           /\ \A i, j \in DOMAIN log.ops :
                (i < j /\ log.ops[i][1] = "upload") => log.ops[j][1] = "upload"

\* C9: recovery by re-run. After a run that failed partway through the uploads,
\* a second run on the same directory (no two files of the same stem, no
\* classification) and arguments, in which the store does not fail, reports
\* success and leaves exactly one object in the store for every photo; the
\* manifest is a parseable document.
C9_RerunRecovers ==
    ( /\ pc = "done" /\ run = 2
      /\ prev.ran /\ prev.result = "false" /\ prev.store_error /\ prev.uploads # <<>>
      /\ ~args.ai_classify /\ DistinctStems(srcdir)
      /\ log.connected /\ ~log.list_lost /\ ~log.store_error )
        => /\ result = "true"
           /\ \A f \in srcdir : Cardinality({ o \in store : o.src = f }) = 1
           /\ manifest.state = "ok"

\* C10: bounded classification retries. One call of classify_image_with_ai
\* sends at most 3 requests; each request before the last got an answer outside
\* the vocabulary or failed; once an answer is in the vocabulary the call is
\* over and returns it; a call that got no such answer is over after exactly 3
\* requests and returns None; a value returned is one of the 18 room types.
C10_BoundedRetries ==
    /\ cls.requests <= 3
    /\ cls.requests = Len(cls.answers)
    /\ Cardinality(valid_types) = 18
    /\ \A i \in DOMAIN cls.answers : i < Len(cls.answers) => cls.answers[i] # "valid"
    /\ cls.result # None => /\ cls.pc = "done"
                            /\ cls.result \in valid_types
                            /\ cls.answers[Len(cls.answers)] = "valid"
    /\ (cls.answers # <<>> /\ cls.answers[Len(cls.answers)] = "valid")
           => (cls.pc = "done" /\ cls.result # None)
    /\ (cls.pc = "done" /\ cls.answers # <<>> /\ cls.result = None) => cls.requests = 3
    /\ (cls.requests = 3 /\ cls.answers[3] # "valid") => (cls.pc = "done" /\ cls.result = None)
    /\ cls.pc = "loop" => cls.requests < 3

\* a call that ended with None after a failed call, an answer outside the
\* vocabulary and another failed call
C10_Witness ==
    /\ cls.pc = "done"
    /\ cls.result = None
    /\ cls.answers = << "error", "other", "error" >>

\* the names a generated name may end up as without classification: itself, or
\* itself with the transcoder's suffix
UpToSuffix(name) == { name, with_suffix(name, <<".","j","p","g">>) }

\* C11: classification gate. In a run without --ai-classify no classification
\* request is made, and every file name of a photo record, of a prepared temp
\* file and of a stored object is the generated name of its photo, up to the
\* transcoder's .jpg suffix (no room-type segment).
C11_ClassificationGate ==
    ~args.ai_classify
        => LET names == GeneratedNames
           IN  /\ log.requests = 0
               /\ pc # "classify"
               /\ \A i \in DOMAIN photo_urls : photo_urls[i].filename \in UpToSuffix(names[i])
               /\ \A j \in DOMAIN temp_files :
                    temp_files[j].path \in UpToSuffix(names[temp_files[j].idx])
               /\ \A o \in store : \E i \in DOMAIN names : o.key \in UpToSuffix(names[i])

\* a run without --ai-classify uploaded a transcoded .png under its .jpg name
C11_Witness ==
    /\ ~args.ai_classify
    /\ pc = "done"
    /\ result = "true"
    /\ Uploads(log.ops) # <<>>
    /\ \E o \in store : o.src = <<"a",".","p","n","g">> /\ o.key \notin Range(GeneratedNames)

\* the library is missing or OPENAI_API_KEY is unset
CapabilityAbsent == ~env.OPENAI_AVAILABLE \/ ~env.OPENAI_API_KEY

\* C12: capability absence short-circuit. When the client library is missing or
\* OPENAI_API_KEY is unset, a call of classify_image_with_ai sends no request
\* and returns None, the run sends no request and renames no file, and a run
\* the store did not fail still ends in success with every photo uploaded or
\* skipped as present.
C12_CapabilityAbsentShortCircuit ==
    CapabilityAbsent
        => /\ cls.requests = 0
           /\ cls.pc # "loop"
           /\ cls.result = None
           /\ log.requests = 0
           /\ \A i \in DOMAIN photo_urls : photo_urls[i].filename \in UpToSuffix(GeneratedNames[i])
           /\ (pc = "done" /\ log.connected /\ ~log.store_error /\ ~log.rejected /\ result # "raised")
                => /\ result = "true"
                   /\ Len(Uploads(log.ops)) + Len(skipped_photos) = Len(photo_urls)

\* with the library present and the key unset, the classification loop of a run
\* went over the file, the run uploaded it, and a call of the classifier ended
C12_Witness ==
    /\ env.OPENAI_AVAILABLE /\ ~env.OPENAI_API_KEY
    /\ pc = "done"
    /\ result = "true"
    /\ Len(Uploads(log.ops)) = 1
    /\ cls.pc = "done"

\* C13: a none classification never blocks upload. In a run the store neither
\* failed nor refused, every prepared file the classifier returned None for was
\* uploaded, under the name it had before classification.
C13_NoneNeverBlocksUpload ==
    (pc = "done" /\ log.connected /\ ~log.store_error /\ ~log.rejected)
        => \A j \in log.unclassified :
             /\ temp_files[j].path \in Range(Uploads(log.ops))
             /\ temp_files[j].path \in UpToSuffix(GeneratedNames[temp_files[j].idx])

\* C14: the temporary working directory is always released. The files of the
\* temporary directory exist only while the upload function is in its with
\* block: once it has returned or an exception has left it, none is left.
C14_TempDirReleased ==
    pc \notin { "prepare", "classify", "send" } => temp_dir = {}

\* an exception left the upload function after temp files had been written
C14_Witness ==
    /\ pc = "done"
    /\ result = "raised"
    /\ temp_files # <<>>
    /\ temp_dir = {}

\* C15: upload partition. After the partition of a call that reached the
\* listing: without --force-reupload every record is either in photos_to_upload
\* (once) or in skipped_photos, it is skipped exactly when its target key is in
\* the listing, and the two lengths add up to the number of records; with
\* --force-reupload every record is in photos_to_upload and none is skipped.
C15_UploadPartition ==
    (pc \in { "prepare", "classify", "send", "returned", "done" } /\ log.connected)
        => /\ \A j, k \in DOMAIN to_upload : j < k => to_upload[j] < to_upload[k]
           /\ Range(to_upload) \subseteq DOMAIN photo_urls
           /\ Len(to_upload) + Len(skipped_photos) = Len(photo_urls)
           /\ IF args.force_reupload
              THEN Range(to_upload) = DOMAIN photo_urls /\ skipped_photos = <<>>
              ELSE LET names == GeneratedNames
                       listed == { i \in DOMAIN names : names[i] \in log.listed }
                   IN  /\ Range(to_upload) = DOMAIN photo_urls \ listed
                       /\ Len(skipped_photos) = Cardinality(listed)
                       /\ Range(skipped_photos) = { names[i] : i \in listed }

\* of two records, the one whose key the store held is skipped and the other is
\* prepared for upload
C15_Witness ==
    /\ ~args.force_reupload
    /\ pc = "prepare"
    /\ Len(photo_urls) = 2
    /\ Cardinality(log.listed) = 1
    /\ Len(to_upload) = 1
    /\ Len(skipped_photos) = 1

\* the records of photos_to_upload that have a prepared temp file
PreparedRecords == { temp_files[j].idx : j \in DOMAIN temp_files }

\* C16: per-item not-found is not a run failure. A record whose source file
\* was not found gets no temp file; every other record of photos_to_upload is
\* prepared; and when the store neither failed nor refused, the call uploaded
\* all of them and returned True if anything was uploaded or skipped as present.
C16_NotFoundIsNotFailure ==
    /\ PreparedRecords \cap log.not_found = {}
    /\ pc \in { "classify", "send" } => PreparedRecords = Range(to_upload) \ log.not_found
    /\ ( /\ pc = "done" /\ log.not_found # {} /\ log.connected
         /\ ~log.store_error /\ ~log.rejected /\ result # "raised" )
           => /\ PreparedRecords = Range(to_upload) \ log.not_found
              /\ Len(Uploads(log.ops)) = Len(to_upload) - Cardinality(log.not_found)
              /\ (Uploads(log.ops) # <<>> \/ skipped_photos # <<>>) => result = "true"

\* one of two source files was gone when the prepare loop looked for it, the
\* other was uploaded and the call returned True
C16_Witness ==
    /\ pc = "done"
    /\ result = "true"
    /\ Cardinality(log.not_found) = 1
    /\ Len(to_upload) = 2
    /\ Len(Uploads(log.ops)) = 1

\* C17: nothing to upload. When a call that reached the listing ends with
\* photos_to_upload empty, or with none of its source files found, the store
\* was asked for no upload, and the call returned True if any photo was skipped
\* as present.
C17_NothingToUpload ==
    ( /\ pc \in { "returned", "done" } /\ log.connected
      /\ (to_upload = <<>> \/ Range(to_upload) \subseteq log.not_found) )
        => /\ Uploads(log.ops) = <<>>
           /\ temp_files = <<>>
           /\ ~log.store_error /\ ~log.rejected
           /\ skipped_photos # <<>> => result = "true"

\* a photo was skipped as present, the source of the only photo left to upload
\* was not found, and the call returned True without an upload
C17_Witness ==
    /\ pc = "returned"
    /\ result = "true"
    /\ to_upload # <<>>
    /\ Range(to_upload) \subseteq log.not_found
    /\ skipped_photos # <<>>
    /\ Uploads(log.ops) = <<>>

\* C18: classifier input is always downsampled. Every temp file sent to the
\* model during a run is the JPEG a transcode wrote, never a verbatim copy of
\* the source.
C18_ClassifierInputDownsampled ==
    log.asked_on \subseteq { "jpeg" }

HexChars == Range(DigitChars) \cup { "a", "b", "c", "d", "e", "f" }

\* id is cleaned to p: as long, in lower case, blanks and underscores as hyphens
IsCleaned(id, p) ==
    /\ Len(p) = Len(id)
    /\ \A i \in DOMAIN id :
         p[i] = IF id[i] \in { " ", "_" } THEN "-" ELSE LowerChar(id[i])

\* C19: prefix determinism and shape. Every call of generate_unique_prefix on
\* the same (shoot id, method) returns the same value. With "hash" it is the
\* first 8 characters of the id, a hyphen and the 6 hex characters tabulated for
\* the id's MD5 ("lakehous-8b75df" for "lakehouse"); with "simple" the first 12
\* characters (all, when fewer) of the cleaned id; with any other method the
\* cleaned id in full.
C19_PrefixDeterministicShape ==
    \A k \in DOMAIN naming.prefixes :
        LET p  == naming.prefixes[k]
            id == naming.shoot_name
            n8 == IF Len(id) < 8 THEN Len(id) ELSE 8
        IN  /\ p = naming.prefixes[1]
            /\ naming.method = "hash"
                 => /\ Len(p) = n8 + 7
                    /\ SubSeq(p, 1, n8) = SubSeq(id, 1, n8)
                    /\ p[n8 + 1] = "-"
                    /\ \A i \in (n8 + 2)..(n8 + 7) : p[i] \in HexChars
                    /\ SubSeq(p, n8 + 2, n8 + 7) = Md5Hex6(id)
                    /\ id = Lakehouse
                         => p = <<"l","a","k","e","h","o","u","s","-","8","b","7","5","d","f">>
            /\ naming.method = "simple"
                 => /\ Len(p) = (IF Len(id) < 12 THEN Len(id) ELSE 12)
                    /\ IsCleaned(SubSeq(id, 1, Len(p)), p)
            /\ naming.method \notin { "hash", "simple" } => IsCleaned(id, p)

\* two calls with method "simple" on an id longer than 12 characters that holds
\* a capital, a blank and an underscore
C19_Witness ==
    /\ naming.method = "simple"
    /\ naming.shoot_name = <<"P","o","o","l","_","H","o","m","e"," ","2","0","2","4">>
    /\ Len(naming.prefixes) = 2

\* the last n characters of s
Last(s, n) == SubSeq(s, Len(s) - n + 1, Len(s))

\* C20: the filename is never empty and keeps the extension. For an original
\* file name that ends in one of the four extensions, in whatever letter case,
\* generate_prefixed_filename returns a name that is longer than the extension
\* and whose extension is, letter for letter, the one the original ends in; so
\* also when the stem is dropped for being empty or numeric.
C20_FilenameKeepsExtension ==
    \A k \in DOMAIN naming.filenames :
        LET out  == naming.filenames[k]
            orig == naming.original_filename
        IN  /\ out # <<>>
            /\ \A i \in DOMAIN photo_extensions :
                 EndsWith(Lower(orig), photo_extensions[i])
                    => /\ Len(out) > Len(photo_extensions[i])
                       /\ splitext(out)[2] = Last(orig, Len(photo_extensions[i]))

\* a call on a name whose stem is numeric and one whose stem is separators only
\* returned the prefix followed by the extension
C20_Witness ==
    /\ naming.filenames # <<>>
    /\ naming.room_type = None /\ naming.counter = <<>>
    /\ naming.original_filename \in { <<"1","2","3",".","p","n","g">>, <<"-","_",".","w","e","b","p">> }
    /\ naming.filenames[1] = naming.prefixes[1] \o splitext(naming.original_filename)[2]

\* the file names of the photo records, in order
RecordNames == [ i \in DOMAIN photo_urls |-> photo_urls[i].filename ]

LakehousePrefix == <<"l","a","k","e","h","o","u","s","-","8","b","7","5","d","f">>

\* C21: naming scenario. For shoot id lakehouse with the hash method and the
\* source files A.JPG, b_two.png and 3.jpg, the prefix is lakehous-8b75df and
\* the records made from the sorted files 3.jpg, A.JPG, b_two.png are named
\* lakehous-8b75df.jpg, lakehous-8b75df-A.JPG and lakehous-8b75df-btwo.png: the
\* separators are stripped from the stem, the numeric stem is dropped, and the
\* letter case of stem and extension is kept.
C21_NamingScenario ==
    (srcdir = ScenarioFiles /\ pc = "manifest")
        => /\ generate_unique_prefix(args.shoot, args.prefix_method) = LakehousePrefix
           /\ RecordNames = << LakehousePrefix \o <<".","j","p","g">>,
                               LakehousePrefix \o <<"-","A",".","J","P","G">>,
                               LakehousePrefix \o <<"-","b","t","w","o",".","p","n","g">> >>

\* the three records of the scenario were generated
C21_Witness ==
    /\ srcdir = ScenarioFiles
    /\ pc = "manifest"
    /\ Len(photo_urls) = 3
    /\ photo_urls[2].original_filename = <<"A",".","J","P","G">>

\* the scenario with the file of A.JPG named lakehous-8b75df-a.jpg
C21_NamingScenario_LowerCase ==
    (srcdir = ScenarioFiles /\ pc = "manifest")
        => Range(RecordNames) = { LakehousePrefix \o <<"-","a",".","j","p","g">>,
                                  LakehousePrefix \o <<"-","b","t","w","o",".","p","n","g">>,
                                  LakehousePrefix \o <<".","j","p","g">> }

\* downsample_image returns False for every source file of the directory
NoneSucceeds == ~env.PIL_AVAILABLE \/ srcdir \subseteq env.CORRUPT

\* C22: transcoding never aborts the pipeline. In a run without
\* --no-downsample in which downsample_image succeeds for no file (PIL is
\* missing, or processing raises on every file), and in which the store neither
\* fails nor refuses, no exception leaves the upload function, every photo to
\* upload is prepared as a verbatim copy and uploaded, none is counted as
\* downsampled, and the call returns True.
C22_TranscodingNeverAborts ==
    ( /\ pc = "done" /\ log.connected /\ ~args.no_downsample /\ NoneSucceeds
      /\ ~log.store_error /\ ~log.rejected )
        => /\ result = "true"
           /\ log.downsampled_count = 0
           /\ Len(temp_files) = Len(to_upload)
           /\ Len(Uploads(log.ops)) = Len(to_upload)
           /\ \A o \in store : o.kind = "copy"

\* the running call of the upload function is past its partition
PastPartition == log.connected /\ pc \in { "prepare", "classify", "send", "returned", "done" }

\* C23: the listing tolerates a missing namespace. When the listing of a call
\* came back empty (the release or the prefix holds nothing, or the listing could
\* not be read), the call went on to its partition, which put every photo
\* record, once and in order, in photos_to_upload and none in skipped_photos.
C23_ListingToleratesMissing ==
    (PastPartition /\ log.listed = {})
        => /\ to_upload = [ i \in DOMAIN photo_urls |-> i ]
           /\ skipped_photos = <<>>

\* the listing of an S3 prefix that held objects could not be read, and the run
\* uploaded every photo again and succeeded
C23_Witness ==
    /\ backend = "s3"
    /\ pc = "done"
    /\ log.list_lost
    /\ store # {}
    /\ result = "true"
    /\ Len(Uploads(log.ops)) = Len(photo_urls)

\* the two scripts schedule the same keys for deletion
SameDeletes ==
    (PastPartition /\ pc = "prepare" /\ loop_i = 1)
        => photos_to_delete("github", photo_urls, log.listed, args.force_reupload)
             = photos_to_delete("s3", photo_urls, log.listed, args.force_reupload)

\* the two scripts give a classified temp file the same name
SameClassifiedNames ==
    pc = "classify"
        => \A room_type \in ModelLabels :
             ClassifiedName("github", args.shoot, photo_urls, temp_files, loop_i, room_type)
               = ClassifiedName("s3", args.shoot, photo_urls, temp_files, loop_i, room_type)

\* C24: backend interchangeability. On the same photo records, flags and
\* listing, upload_photos_to_release and upload_photos_to_s3 schedule the same
\* keys for deletion and give every temp file the same name after
\* classification (the partition is computed alike by both: photos_to_upload and
\* skipped_of do not depend on the backend).
C24_BackendsInterchangeable == SameDeletes /\ SameClassifiedNames

\* C25: a dry run makes no changes. In a run with --dry-run, whatever the
\* other flags, create_release_tag is not called, no release is created, the
\* manifest is not written, and nothing is deleted from or uploaded to the
\* store: the upload function is not called at all.
C25_DryRunChangesNothing ==
    args.dry_run
        => /\ log.tag_calls = 0
           /\ log.creates = 0
           /\ ~release_exists
           /\ ~log.manifest_written
           /\ manifest = log.manifest_before
           /\ log.upload_calls = 0
           /\ log.delete_calls = 0
           /\ log.ops = <<>>
           /\ store = {}

\* C26: the classification rename changes only the room-type segment. The name
\* a classified temp file is given is the one generate_prefixed_filename builds
\* from the record's original file name, the prefix of the run (shoot id and
\* --prefix-method), the room type and the counter the record has, up to the
\* transcoder's .jpg suffix.
C26_RenameChangesRoomOnly ==
    \A j \in log.renamed :
        LET rec == photo_urls[temp_files[j].idx]
        IN  temp_files[j].path \in
              UpToSuffix(generate_prefixed_filename(rec.original_filename,
                             generate_unique_prefix(args.shoot, args.prefix_method),
                             rec.counter, Kitchen))

\* C27: the target filename is rewritten only by the classifier. A step of a
\* run changes the filename of a photo record only when it is a pass of the
\* classification loop; the prepare (transcoding) step and the upload step
\* leave every record's filename as it is.
C27_FilenameRewrittenByClassifierOnly ==
    [][ \A i \in DOMAIN photo_urls \cap DOMAIN photo_urls' :
          photo_urls'[i].filename # photo_urls[i].filename => pc = "classify" ]_vars

\* the call of the upload function that ran last has ended otherwise than by an
\* exception
CallReturned == pc \in { "returned", "done" } /\ result # "raised"

CreateFailureEndsCall ==
    log.create_failed
        => /\ pc \in { "returned", "done" }
           /\ result = "false"
           /\ ~log.connected
           /\ ~release_exists
           /\ log.listed = {} /\ log.delete_calls = 0 /\ log.ops = <<>>
           /\ to_upload = <<>> /\ temp_files = <<>>

\* a step of upload_photos_to_release adds a release-create call only when the
\* release is absent, and a release that exists stays
CreateOnlyWhenAbsent ==
    /\ log'.creates > log.creates => (backend = "github" /\ pc = "connect" /\ ~release_exists)
    /\ log'.creates <= log.creates + 1
    /\ release_exists => release_exists'

IsPhoto(f) ==
    \E i \in DOMAIN photo_extensions :
        EndsWith(f, photo_extensions[i]) \/ EndsWith(f, Upper(photo_extensions[i]))

\* the source files of the photo records, in order
RecordSources == [ i \in DOMAIN photo_urls |-> photo_urls[i].src ]

\* C30: bounded, sorted discovery. The files release_photos.py discovers are
\* photo files of the directory, each once and in sorted order; with
\* --max-depth d, for every d >= 0, each lies at most d directory levels below
\* the directory; without --max-depth they are all the photo files at any
\* depth.
C30_BoundedSortedDiscovery ==
    (backend = "github" /\ pc = "manifest")
        => /\ \A i \in DOMAIN RecordSources :
                RecordSources[i] \in srcdir /\ IsPhoto(RecordSources[i])
           /\ \A i, j \in DOMAIN RecordSources :
                i < j => StrLess(RecordSources[i], RecordSources[j])
           /\ args.max_depth # <<>>
                => \A i \in DOMAIN RecordSources : Depth(RecordSources[i]) <= args.max_depth[1]
           /\ args.max_depth = <<>>
                => Range(RecordSources) = { f \in srcdir : IsPhoto(f) }


\* C31: resize stays within bounds. For every image size and bounds of at
\* least 1, an image within the bounds is written with its size unchanged;
\* any other is written with the size (floor(width*r), floor(height*r)), r the
\* smaller of max_width/width and max_height/height, and both dimensions of
\* that size are at least 1 and at most their bound.
C31_ResizeWithinBounds ==
    image.pc = "saved"
        => LET w  == image.width
               h  == image.height
               mw == image.max_width
               mh == image.max_height
           IN  /\ within_bounds(w, h, mw, mh) => image.out = << w, h >>
               /\ ~within_bounds(w, h, mw, mh)
                    => /\ image.out = new_size(w, h, mw, mh)
                       /\ image.out[1] >= 1 /\ image.out[1] <= mw
                       /\ image.out[2] >= 1 /\ image.out[2] <= mh


\* the classification step renames the loop_i-th temp file: the new name is made
\* from the original file name of the record that temp file was prepared from,
\* and it is written to that record and to no other
RenameAligned ==
    (pc = "classify" /\ log'.renamed # log.renamed)
        => LET own == temp_files[loop_i].idx
           IN  /\ \E room_type \in ModelLabels :
                     temp_files'[loop_i].path =
                         generate_prefixed_filename(photo_urls[own].original_filename,
                             generate_unique_prefix(RenameShoot, "hash"), <<>>, room_type)
               /\ photo_urls'[own].filename = temp_files'[loop_i].path
               /\ \A k \in DOMAIN photo_urls : k # own => photo_urls'[k] = photo_urls[k]

\* C32: classification rename stays aligned with its photo. In both backends,
\* also when photos were skipped as existing or dropped as not found, the new
\* file name of the i-th temp file is derived from the original file name of the
\* photo that temp file was prepared from, and is recorded on that photo's
\* record.
C32_RenameAligned == [][RenameAligned]_vars


\* the file names of the images list of the shoot's manifest entry
ManifestImages ==
    IF manifest.state = "ok" /\ args.shoot \in DOMAIN manifest.data
    THEN Range(manifest.data[args.shoot].images)
    ELSE {}

\* C33: manifest and store agree after a successful run. After a run of
\* release_photos_s3.py with --auto-upload whose upload returned True, every
\* file name of the images list of the shoot's manifest entry is the name of an
\* object of the shoot's key prefix, and every object the run uploaded is in
\* that list.
C33_ManifestMatchesStore ==
    (backend = "s3" /\ pc = "done" /\ args.auto_upload /\ result = "true")
        => /\ ManifestImages \subseteq Keys(store)
           /\ Range(Uploads(log.ops)) \subseteq ManifestImages


\* C34: non-force runs never touch existing objects. In a run without
\* --force-reupload no key the store listing reported is deleted, uploaded again
\* or overwritten: every delete and upload of the run is of a key that was not
\* in the listing.
C34_NonForceKeepsExisting ==
    ~args.force_reupload
        => \A i \in DOMAIN log.ops : log.ops[i][2] \notin log.listed


\* the prepare loop wrote a temp file for a record: the file copied or
\* transcoded into it is the source file the record was generated from
SourceIsOwn ==
    (pc = "prepare" /\ Len(temp_files') > Len(temp_files))
        => LET entry == temp_files'[Len(temp_files')]
           IN  TempFile(temp_dir', entry.path).src = photo_urls[entry.idx].src

\* C35: each record is fed from its own source file. The file copied or
\* transcoded for a photo record is the source file the record was generated
\* from, also when files of different subdirectories of the input directory
\* have the same basename.
C35_RecordFedFromOwnSource == [][SourceIsOwn]_vars


\* C36: the upload phase runs at most once per invocation. One invocation of
\* main of release_photos.py calls upload_photos_to_release at most once,
\* whatever the flags and whatever the call returns.
C36_UploadAtMostOnce ==
    backend = "github" => log.upload_calls <= 1


\* the configuration main loaded, and the shoots the scan found
ExistingShoots == IF mp.before.config.state = "ok" THEN mp.before.config.data ELSE EmptyData

\* C37: manage_photos merge keeps unscanned shoots and honours scan-only.
\* After the merge in main of manage_photos.py every shoot of the existing
\* configuration the directory scan did not find is kept with all its fields
\* unchanged, a scanned shoot already in the configuration has only its images
\* replaced, and with --scan-only neither photos.json nor real-estate.js is
\* written.
C37_MergeKeepsUnscanned ==
    (mp.pc = "done" /\ ~mp.args.create_sample)
        => /\ \A s \in DOMAIN ExistingShoots \ DOMAIN mp.scanned :
                s \in DOMAIN mp.merged /\ mp.merged[s] = ExistingShoots[s]
           /\ \A s \in DOMAIN ExistingShoots \cap DOMAIN mp.scanned :
                /\ mp.merged[s].title = ExistingShoots[s].title
                /\ mp.merged[s].description = ExistingShoots[s].description
                /\ mp.merged[s].category = ExistingShoots[s].category
                /\ mp.merged[s].images = mp.scanned[s].images
           /\ mp.args.scan_only
                => /\ mp.writes = {}
                   /\ mp.config = mp.before.config
                   /\ mp.js = mp.before.js

\* a --scan-only run on a configuration with a shoot the scan does not find and
\* an operator-edited shoot whose directory holds images, beside a
\* real-estate.js that could be written
C37_Witness ==
    /\ mp.pc = "done" /\ ~mp.args.create_sample /\ mp.args.scan_only
    /\ mp.js.state = "ok"
    /\ OldBarn \in DOMAIN ExistingShoots \ DOMAIN mp.scanned
    /\ LakeHome \in DOMAIN ExistingShoots \cap DOMAIN mp.scanned
    /\ ExistingShoots[LakeHome].title = EditedTitle
    /\ mp.merged[LakeHome].images # ExistingShoots[LakeHome].images

=============================================================================
